---- MODULE Spec2Model ----
(***************************************************************************)
(* FAHRPC: the reconciliation loop (main_logic), the presence sink         *)
(* (DiscordRPC) and the progress source (FAHScraper).                      *)
(*                                                                         *)
(* One action per await point of main_logic: each action performs the leaf *)
(* call awaited there, with its outcome drawn from the outcomes the leaf   *)
(* can produce, and all the synchronous code up to the next await.         *)
(*                                                                         *)
(* Python values: None is the string NoneVal, strings are strings, the     *)
(* text of a progress indicator is a sequence of one-character strings (so *)
(* that strip(), replace() and float() are computed), a list is a          *)
(* sequence, and the optional tuple _stats_cache is <<>> (None) or         *)
(* <<points, wus>>.                                                        *)
(***************************************************************************)
EXTENDS Integers, Sequences, FiniteSets, TLC

(***************************************************************************)
(* Bounds and program constants                                            *)
(***************************************************************************)
MaxCycle == 3

CacheTTL == 300

FiftyPercent == 500

NoneVal == "<None>"

Placeholder == "Synchronizing..."

Flavor == "\"hyper modern space heater\""

GpuUnavailable == "GPU Info Unavailable"

\* config foldingathome.update_interval: half the cache TTL, so that a cached
\* value is young at the next tick and expired at the one after
UpdateIntervals == {150}

PointsFig == "1,234,567"

WusFig == "123"

Digits == {"0", "1", "2", "3", "4", "5", "6", "7", "8", "9"}

(***************************************************************************)
(* Inputs: what the control page, the stats page and the GPU monitor can   *)
(* serve.                                                                  *)
(***************************************************************************)
\* what the control page shows of the work queue: the textContent of its
\* .progress-text elements and the 5-digit numbers found in its content, in
\* page order.  The views differ in what the loop tells apart: the leading
\* task, one task or two, a leading percentage below 50, at least 50 or not
\* a number, as many percentages as task IDs or fewer, no markup at all.
TaskViews ==
    { [progress_text |-> << <<" ", "4", "9", "%">> >>, ids |-> <<"18201">>],
      [progress_text |-> << <<"5", "1", ".", "5", "%">> >>, ids |-> <<"18201">>],
      [progress_text |-> << <<"4", "9", "%">>, <<"5", "1", "%">> >>,
       ids |-> <<"18202", "18201">>],
      [progress_text |-> << <<"7", "2", "%">> >>, ids |-> <<"18202", "18201">>],
      [progress_text |-> << <<" ">>, <<"n", "/", "a">> >>, ids |-> <<>>],
      [progress_text |-> <<>>, ids |-> <<>>] }

\* a control page: a view of the queue and the number of .state-run
\* elements
ControlPages ==
    { [progress_text |-> v.progress_text, ids |-> v.ids, state_run |-> 1] : v \in TaskViews }
      \cup
    { [progress_text |-> << <<"5", "1", ".", "5", "%">> >>, ids |-> <<"18201">>,
       state_run |-> 0] }

\* the matches of RE_POINTS and RE_WUS in the stats page
StatsPages ==
    { [points |-> <<PointsFig>>, wus |-> <<WusFig>>],
      [points |-> <<PointsFig>>, wus |-> <<>>],
      [points |-> <<>>, wus |-> <<WusFig>>],
      [points |-> <<>>, wus |-> <<>>] }

\* what gpu_monitor.get_all_gpu_data() returns (gpu_lines, utilizations,
\* temperatures); a temperature of -1 in gpu_data stands for "N/A"
NA == -1

GpuResults ==
    { [gpu_data |-> <<>>, utilizations |-> <<>>, temperatures |-> <<>>],
      [gpu_data |-> << [name |-> "RTX 3070", util |-> 97, temp |-> 65],
                       [name |-> "RX 6800", util |-> 90, temp |-> NA] >>,
       utilizations |-> <<97, 90>>, temperatures |-> <<65>>] }

(***************************************************************************)
(* Pure helpers                                                            *)
(***************************************************************************)
RECURSIVE Strip(_)
\* str.strip(): drop leading and trailing blanks
Strip(s) ==
    IF s = <<>> THEN <<>>
    ELSE IF Head(s) = " " THEN Strip(Tail(s))
    ELSE IF s[Len(s)] = " " THEN Strip(SubSeq(s, 1, Len(s) - 1))
    ELSE s

\* str.replace('%', '')
RemovePercent(s) == SelectSeq(s, LAMBDA c : c # "%")

RECURSIVE JoinChars(_)
\* the Python string made of the characters of s
JoinChars(s) == IF s = <<>> THEN "" ELSE Head(s) \o JoinChars(Tail(s))

DigitVal(c) ==
    CASE c = "0" -> 0 [] c = "1" -> 1 [] c = "2" -> 2 [] c = "3" -> 3
      [] c = "4" -> 4 [] c = "5" -> 5 [] c = "6" -> 6 [] c = "7" -> 7
      [] c = "8" -> 8 [] c = "9" -> 9

RECURSIVE DecVal(_)
DecVal(s) == IF s = <<>> THEN 0 ELSE 10 * DecVal(SubSeq(s, 1, Len(s) - 1)) + DigitVal(s[Len(s)])

\* float(): the text parses when, blanks stripped, it is digits with at
\* most one '.' and at least one digit
FloatParses(s) ==
    LET t == Strip(s)
    IN  /\ \A i \in 1..Len(t) : t[i] \in Digits \cup {"."}
        /\ Cardinality({i \in 1..Len(t) : t[i] = "."}) <= 1
        /\ \E i \in 1..Len(t) : t[i] \in Digits

\* the parsed value in tenths (further decimals truncated)
FloatTenths(s) ==
    LET t == Strip(s)
        dots == {i \in 1..Len(t) : t[i] = "."}
        d == IF dots = {} THEN Len(t) + 1 ELSE CHOOSE i \in dots : TRUE
        ip == SubSeq(t, 1, d - 1)
        fp == SubSeq(t, d + 1, Len(t))
    IN  10 * DecVal(ip) + (IF fp = <<>> THEN 0 ELSE DigitVal(fp[1]))

\* try: percent_float = float(percent) except: pass (percent_float stays 0.0)
PercentFloat(percent) == IF FloatParses(percent) THEN FloatTenths(percent) ELSE 0

RECURSIVE SumSeq(_)
SumSeq(s) == IF s = <<>> THEN 0 ELSE Head(s) + SumSeq(Tail(s))

(***************************************************************************)
(* State                                                                   *)
(***************************************************************************)
VARIABLES
    \* main_logic: position and locals
    pc, global_points, global_wus, last_known_project, cycle_index,
    was_running_last_check, force_stats_sync, sync_status,
    fifty_percent_synced, discord_lost_logged, fah_lost_logged,
    last_discord_status, last_fah_status, update_interval,
    percents, proj_ids, is_running, percent_float, detail_text, state_text,
    \* the two threading.Event flags
    restart_event, stop_event,
    \* DiscordRPC
    connected, rpc,
    \* FAHScraper: browser open, _stats_cache, and time.time() minus
    \* _cache_timestamp (saturating at CacheTTL)
    scraper_open, stats_cache, cache_age,
    \* observation of the current tick: leaf calls made, console lines
    \* printed, the state at the start of the tick, the need predicate as
    \* evaluated, an exception caught by the tick's outer handler
    calls, logs, pre, eval, tick_exc,
    \* observation across ticks: successful update() calls since the task
    \* started, whether the sink is in an outage and the 'not found' lines
    \* printed during it, whether a stats fetch has returned both figures
    ok_updates, outage, outage_logs, fetched,
    \* the number of asyncio.sleep(update_interval) calls the current
    \* iteration of the while loop has made
    sleeps,
    \* main_loop: its position, the tasks it has created, whether
    \* task.cancel() reached the current task, and the state the previous
    \* task's objects were left in when the current task was created
    sup_pc, tasks_started, cancelled, prev,
    \* the control page served to a get_control_data() call on its own
    ctl_page,
    \* the leaf operations called on their own: whether an exception left
    \* one of them, and the time since the last request to the stats page
    \* (saturating at CacheTTL, where it starts: no request so far)
    escaped, since_remote,
    \* get_all_gpu_data() called on its own: what the vendor SDKs report for
    \* each device, and the triple returned
    gpu_raw, gpu_out

loopVars ==
    <<pc, global_points, global_wus, last_known_project, cycle_index,
      was_running_last_check, force_stats_sync, sync_status,
      fifty_percent_synced, discord_lost_logged, fah_lost_logged,
      last_discord_status, last_fah_status, update_interval,
      percents, proj_ids, is_running, percent_float, detail_text, state_text>>

eventVars == <<restart_event, stop_event>>

sinkVars == <<connected, rpc>>

scraperVars == <<scraper_open, stats_cache, cache_age>>

tickObs == <<calls, logs, pre, eval, tick_exc>>

runObs == <<ok_updates, outage, outage_logs, fetched>>

supVars == <<sup_pc, tasks_started, cancelled, prev>>

harnessVars == <<ctl_page, escaped, since_remote, gpu_raw, gpu_out>>

vars == <<loopVars, eventVars, sinkVars, scraperVars, tickObs, runObs, sleeps,
          supVars, harnessVars>>

Min(a, b) == IF a < b THEN a ELSE b

\* a leaf call: its name, whether it returned success (True, valid data, no
\* exception) and whether it reached the SDK session or the remote page
\* (for the GPU query: whether it returned any device)
Call(op, ret, ext) == [op |-> op, ret |-> ret, ext |-> ext]

\* if not gpu_lines_console (main.py 387-393, 410): the query returned
\* at least one device
GpuDelivered(gpu_raises, gpu) == ~gpu_raises /\ gpu.gpu_data # <<>>

NoEval ==
    [done |-> FALSE, proj_id |-> NoneVal, percent_float |-> 0, fifty |-> FALSE,
     needs_pull |-> FALSE, sync_status |-> "idle", force |-> FALSE,
     last_known |-> NoneVal]

\* the loop state a tick starts from
Snapshot(cyc, st, lkp, fifty, force, wasrun, pts, wus, conn) ==
    [cycle_index |-> cyc, sync_status |-> st, last_known_project |-> lkp,
     fifty_percent_synced |-> fifty, force_stats_sync |-> force,
     was_running_last_check |-> wasrun, global_points |-> pts,
     global_wus |-> wus, connected |-> conn]

(***************************************************************************)
(* DiscordRPC (discord_rpc.py).  sdk_ok: the SDK call does not raise.      *)
(* Each operator gives the object's next state, the value returned,        *)
(* whether the SDK session was reached and whether an exception left the   *)
(* method.                                                                 *)
(***************************************************************************)
DiscordConnect(sdk_ok) ==
    IF sdk_ok
    THEN [connected |-> TRUE, rpc |-> "AioPresence", ret |-> TRUE, ext |-> TRUE, raised |-> FALSE]
    ELSE [connected |-> FALSE, rpc |-> NoneVal, ret |-> FALSE, ext |-> TRUE, raised |-> FALSE]

DiscordUpdate_StaysConnected(conn, r, sdk_ok) ==
    IF ~conn \/ r = NoneVal
    THEN [connected |-> conn, rpc |-> r, ret |-> FALSE, ext |-> FALSE, raised |-> FALSE]
    ELSE [connected |-> conn, rpc |-> r, ret |-> sdk_ok, ext |-> TRUE, raised |-> FALSE]

DiscordUpdate(conn, r, sdk_ok) ==
    IF ~conn \/ r = NoneVal
    THEN [connected |-> conn, rpc |-> r, ret |-> FALSE, ext |-> FALSE, raised |-> FALSE]
    ELSE IF sdk_ok
    THEN [connected |-> conn, rpc |-> r, ret |-> TRUE, ext |-> TRUE, raised |-> FALSE]
    ELSE [connected |-> FALSE, rpc |-> NoneVal, ret |-> FALSE, ext |-> TRUE, raised |-> FALSE]

\* clear() treating a failure as update() does
DiscordClear_Disconnects(conn, r, sdk_ok) ==
    IF r # NoneVal /\ ~sdk_ok
    THEN [connected |-> FALSE, rpc |-> NoneVal, ret |-> TRUE, ext |-> TRUE, raised |-> FALSE]
    ELSE [connected |-> conn, rpc |-> r, ret |-> TRUE, ext |-> r # NoneVal, raised |-> FALSE]

\* clear() without its except clause
DiscordClear_Raises(conn, r, sdk_ok) ==
    [connected |-> conn, rpc |-> r, ret |-> TRUE, ext |-> r # NoneVal,
     raised |-> (r # NoneVal /\ ~sdk_ok)]

DiscordClear(conn, r, sdk_ok) ==
    [connected |-> conn, rpc |-> r, ret |-> TRUE, ext |-> r # NoneVal, raised |-> FALSE]

DiscordClose(conn, r, sdk_ok) ==
    [connected |-> FALSE, rpc |-> NoneVal, ret |-> TRUE, ext |-> r # NoneVal, raised |-> FALSE]

(***************************************************************************)
(* FAHScraper (scraper.py)                                                 *)
(***************************************************************************)
\* percents of get_control_data: non-blank texts, stripped, '%' removed;
\* ["0"] when there is none
ControlPercents(page) ==
    LET nonblank == SelectSeq(page.progress_text, LAMBDA p : Strip(p) # <<>>)
        cleaned == [i \in 1..Len(nonblank) |-> RemovePercent(Strip(nonblank[i]))]
    IN  IF cleaned = <<>> THEN << <<"0">> >> ELSE cleaned

\* proj_ids of get_control_data: every 5-digit match; ["Active"] when none
ControlProjIds(page) == IF page.ids = <<>> THEN <<"Active">> ELSE page.ids

ControlIsRunning(page) == page.state_run > 0

\* get_global_stats: a cache hit, or a remote fetch that loads (loaded,
\* serving page) or raises
GetGlobalStats(cache, age, loaded, page) ==
    IF cache # <<>> /\ age < CacheTTL
    THEN [ret |-> cache, cache |-> cache, age |-> age, remote |-> FALSE, raised |-> FALSE]
    ELSE IF loaded
    THEN LET result == << IF page.points # <<>> THEN page.points[1] ELSE NoneVal,
                          IF page.wus # <<>> THEN page.wus[1] ELSE NoneVal >>
         IN  [ret |-> result, cache |-> result, age |-> 0, remote |-> TRUE, raised |-> FALSE]
    ELSE [ret |-> <<NoneVal, NoneVal>>, cache |-> cache, age |-> age, remote |-> TRUE, raised |-> FALSE]

(***************************************************************************)
(* Display text (main.py, "Format for RPC" and "Rich Presence cycle")      *)
(***************************************************************************)
\* an f-string field: None prints as "None"
Str(v) == IF v = NoneVal THEN "None" ELSE v

TempStr(t) == IF t = NA THEN "N/A" ELSE ToString(t) \o "c"

\* rpc_gpu_text from the monitor's result (the box-drawing bar, the x-bar
\* and the degree sign are written |, avg and nothing)
RpcGpuText(g) ==
    IF g.gpu_data = <<>> THEN GpuUnavailable
    ELSE LET total_gpus == Len(g.utilizations)
         IN  IF total_gpus = 1
             THEN LET temp_val == IF g.temperatures # <<>> THEN g.temperatures[1] ELSE NA
                  IN  g.gpu_data[1].name \o " | " \o ToString(g.utilizations[1])
                        \o "% - " \o TempStr(temp_val)
             ELSE LET avg_util == SumSeq(g.utilizations) \div total_gpus
                      avg_temp == IF g.temperatures # <<>>
                                  THEN SumSeq(g.temperatures) \div Len(g.temperatures)
                                  ELSE NA
                  IN  "GPUs: " \o ToString(total_gpus) \o " | avg " \o ToString(avg_util)
                        \o "% - avg " \o TempStr(avg_temp)

TotalsDetail(pts) == "pTotal: " \o Str(pts)

TotalsState(wus) == "WUs Completed: " \o Str(wus)

ProjectText(id, pct) == "Project " \o id \o " - " \o JoinChars(pct) \o "%"

\* cycle_index % 3 for two or more projects, % 2 for one, 0 otherwise
DiscordCycle_Mod2(num_projects, cyc) ==
    IF num_projects >= 1 THEN cyc % 2 ELSE 0

DiscordCycle(num_projects, cyc) ==
    IF num_projects >= 2 THEN cyc % 3
    ELSE IF num_projects = 1 THEN cyc % 2
    ELSE 0

NoGpu == [gpu_data |-> <<>>, utilizations |-> <<>>, temperatures |-> <<>>]

\* from the GPU query to the arguments of discord.update(); raised: an
\* IndexError leaves the tick through the outer handler
Derive(gpu_raises, gpu, cyc, pts, wus, ids, pcs) ==
    LET g == IF gpu_raises THEN NoGpu ELSE gpu
        rpc_gpu_text == RpcGpuText(g)
        num_projects == Len(ids)
        discord_cycle == DiscordCycle(num_projects, cyc)
    IN  IF num_projects >= 2
        THEN IF discord_cycle = 0
             THEN [raised |-> FALSE, detail |-> TotalsDetail(pts), state |-> TotalsState(wus)]
             ELSE IF discord_cycle = 1
             THEN IF Len(pcs) >= 2
                  THEN [raised |-> FALSE, detail |-> ProjectText(ids[1], pcs[1]),
                        state |-> ProjectText(ids[2], pcs[2])]
                  ELSE [raised |-> TRUE, detail |-> NoneVal, state |-> NoneVal]
             ELSE [raised |-> FALSE, detail |-> rpc_gpu_text, state |-> Flavor]
        ELSE IF num_projects = 1
        THEN IF discord_cycle = 0
             THEN [raised |-> FALSE, detail |-> TotalsDetail(pts), state |-> TotalsState(wus)]
             ELSE IF Len(pcs) >= 1
             THEN [raised |-> FALSE, detail |-> rpc_gpu_text,
                   state |-> ProjectText(ids[1], pcs[1])]
             ELSE [raised |-> TRUE, detail |-> NoneVal, state |-> NoneVal]
        ELSE [raised |-> FALSE, detail |-> TotalsDetail(pts), state |-> TotalsState(wus)]

(***************************************************************************)
(* GPUMonitor (hardware.py 136-198).  What the vendor SDKs report for a    *)
(* device: ok (the queries do not raise), has_temp (the temperature is     *)
(* not None) and the temperature; raw temperatures other than -1, which    *)
(* stands for "N/A" in a reading.                                          *)
(***************************************************************************)
MaxGpus == 2

NvidiaDevices ==
    { [ok |-> FALSE, has_temp |-> TRUE, temp |-> 65],
      [ok |-> TRUE, has_temp |-> TRUE, temp |-> 65],
      [ok |-> TRUE, has_temp |-> TRUE, temp |-> 0] }

AmdDevices ==
    { [ok |-> FALSE, has_temp |-> TRUE, temp |-> 65],
      [ok |-> TRUE, has_temp |-> TRUE, temp |-> 65],
      [ok |-> TRUE, has_temp |-> TRUE, temp |-> 0],
      [ok |-> TRUE, has_temp |-> FALSE, temp |-> 0] }

NoDevices == [nvidia |-> <<>>, amd |-> <<>>]

\* get_nvidia_data: one (name, util, temp) per handle whose queries do not
\* raise, the temperature as NVML reports it
GetNvidiaData(handles) ==
    LET good == SelectSeq(handles, LAMBDA h : h.ok)
    IN  [i \in 1..Len(good) |->
            [name |-> "RTX 3070", util |-> 97, temp |-> good[i].temp]]

\* if temp is None or temp <= 0: temp = "N/A" (hardware.py 169-170)
AmdTemp(d) == IF ~d.has_temp \/ d.temp <= 0 THEN NA ELSE d.temp

\* get_amd_data: one (name, util, temp) per device whose queries do not
\* raise
GetAmdData(devices) ==
    LET good == SelectSeq(devices, LAMBDA d : d.ok)
    IN  [i \in 1..Len(good) |->
            [name |-> "RX 6800", util |-> 90, temp |-> AmdTemp(good[i])]]

\* get_all_gpu_data: Nvidia readings, then AMD readings; every Nvidia
\* temperature and every AMD temperature but "N/A" goes to temperatures
GetAllGpuData(raw) ==
    LET nv == GetNvidiaData(raw.nvidia)
        amd == GetAmdData(raw.amd)
        amd_num == SelectSeq(amd, LAMBDA r : r.temp # NA)
    IN  [gpu_data |-> nv \o amd,
         utilizations |-> [i \in 1..Len(nv) |-> nv[i].util]
                            \o [i \in 1..Len(amd) |-> amd[i].util],
         temperatures |-> [i \in 1..Len(nv) |-> nv[i].temp]
                            \o [i \in 1..Len(amd_num) |-> amd_num[i].temp]]

(***************************************************************************)
(* The decisions of the tick (main.py 298-508)                             *)
(***************************************************************************)
\* if not discord_lost_logged / if not fah_lost_logged: the loss is printed
\* on its first tick only (main.py 309, 324, 484)
LossLogged_Always(lost_logged) == TRUE

LossLogged(lost_logged) == ~lost_logged

\* if is_running (main.py 348)
RunningBranch_Always(run) == TRUE

RunningBranch(run) == run

\* Reset 50% sync flag on new project (main.py 359-360)
ResetFifty_Keep(proj_id, lkp, fifty) == fifty

ResetFifty(proj_id, lkp, fifty) == IF proj_id # lkp THEN FALSE ELSE fifty

\* needs_pull (main.py 361-366), fifty being the flag after the reset
NeedsPull_NoForce(proj_id, lkp, pf, fifty, st, force) ==
    \/ proj_id # lkp
    \/ (pf >= FiftyPercent /\ ~fifty)
    \/ st = "idle"

NeedsPull_NoIdChange(proj_id, lkp, pf, fifty, st, force) ==
    \/ (pf >= FiftyPercent /\ ~fifty)
    \/ st = "idle"
    \/ force

NeedsPull_NoIdle(proj_id, lkp, pf, fifty, st, force) ==
    \/ proj_id # lkp
    \/ (pf >= FiftyPercent /\ ~fifty)
    \/ force

NeedsPull(proj_id, lkp, pf, fifty, st, force) ==
    \/ proj_id # lkp
    \/ (pf >= FiftyPercent /\ ~fifty)
    \/ st = "idle"
    \/ force

\* if needs_pull and sync_status != 'pending' (main.py 368)
AttemptRefresh(needs_pull, st) == needs_pull /\ st # "pending"

\* sync_status after get_global_stats() returned (main.py 374-385)
StatusAfterFetch_StaysPending(truthy) == IF truthy THEN "synced" ELSE "pending"

StatusAfterFetch(truthy) == IF truthy THEN "synced" ELSE "idle"

\* if not discord.connected (main.py 300)
NeedsConnect_Never(conn) == FALSE

NeedsConnect(conn) == ~conn

\* a failed update() is followed by the sleep at the end of the iteration
\* (main.py 482-487, 508)
AfterUpdateFailure_Reconnects == "connect"

AfterUpdateFailure == "sleep"

\* force_stats_sync = False once a refresh is attempted (main.py 371)
ForceAfterAttempt_Keeps(force) == force

ForceAfterAttempt(force) == FALSE

\* if is_running and not was_running_last_check (main.py 340)
Started_WhenRunning(run, wasrun) == run

Started(run, wasrun) == run /\ ~wasrun

\* force_stats_sync = True when the work has started or resumed
\* (main.py 342)
ForceOnStart_Always(started, force) == TRUE

ForceOnStart_Never(started, force) == force

ForceOnStart(started, force) == started \/ force

\* elif not is_running and was_running_last_check (main.py 343)
Paused(run, wasrun) == ~run /\ wasrun

\* if new_pts (main.py 374): None and the empty string are falsy
Truthy(v) == v # NoneVal /\ v # ""

\* Mark 50% sync as done if triggered by 50% (main.py 374-379)
MarkFifty_Never(valid, pf, fifty) == fifty

MarkFifty(valid, pf, fifty) == IF valid /\ pf >= FiftyPercent THEN TRUE ELSE fifty

\* cycle_index += 1 in the success branch of discord.update() only
\* (main.py 477-482)
CycleAfterUpdate_Always(ok, cyc) == cyc + 1

CycleAfterUpdate(ok, cyc) == IF ok THEN cyc + 1 ELSE cyc

\* no control page is being served
NoPage == [reachable |-> FALSE, progress_text |-> <<>>, ids |-> <<>>, state_run |-> 0]

\* what the supervisor creates a task over: whether the previous task had
\* finished, whether it had got anywhere (a display cycle advanced and
\* totals cached), and whether the stop flag was set by then
Left(p, cyc, cache, stop) ==
    [finished |-> p = "done", progressed |-> cyc > 0 /\ cache # <<>>,
     stopping |-> stop]

\* there was no previous task
NoPrev == [finished |-> FALSE, progressed |-> FALSE, stopping |-> FALSE]

\* where an iteration goes when discord.connect() returned False: to
\* await asyncio.sleep(update_interval), then continue (main.py 315-316)
AfterConnectFailure_NoSleep == "top"

AfterConnectFailure == "sleep"

\* await asyncio.sleep(update_interval); continue after a failed
\* get_control_data() (main.py 331-332)
AfterControlFailure_FallsThrough == "clear"

AfterControlFailure == "sleep"

\* where an iteration goes when its body raised: except Exception logs,
\* awaits asyncio.sleep(update_interval), then continue (main.py 502-506)
AfterTickException_Escapes == "close_discord"

AfterTickException == "sleep"

(***************************************************************************)
(* Initial state: main_logic entered, before scraper.initialize(); main_loop *)
(* has created this task and polls the flags (main.py 543-546)             *)
(***************************************************************************)
Init ==
    /\ pc = "init"
    /\ global_points = Placeholder
    /\ global_wus = Placeholder
    /\ last_known_project = NoneVal
    /\ cycle_index = 0
    /\ was_running_last_check = TRUE
    /\ force_stats_sync = FALSE
    /\ sync_status = "idle"
    /\ fifty_percent_synced = FALSE
    /\ discord_lost_logged = FALSE
    /\ fah_lost_logged = FALSE
    /\ last_discord_status = FALSE
    /\ last_fah_status = FALSE
    /\ update_interval \in UpdateIntervals
    /\ percents = <<>>
    /\ proj_ids = <<>>
    /\ is_running = FALSE
    /\ percent_float = 0
    /\ detail_text = NoneVal
    /\ state_text = NoneVal
    /\ restart_event = FALSE
    /\ stop_event = FALSE
    /\ connected = FALSE
    /\ rpc = NoneVal
    /\ scraper_open = FALSE
    /\ stats_cache = <<>>
    /\ cache_age = CacheTTL
    /\ calls = <<>>
    /\ logs = <<>>
    /\ pre = Snapshot(0, "idle", NoneVal, FALSE, FALSE, TRUE, Placeholder, Placeholder, FALSE)
    /\ eval = NoEval
    /\ tick_exc = FALSE
    /\ ok_updates = 0
    /\ outage = FALSE
    /\ outage_logs = 0
    /\ fetched = FALSE
    /\ sleeps = 0
    /\ sup_pc = "poll_sleep"
    /\ tasks_started = 1
    /\ cancelled = FALSE
    /\ prev = NoPrev
    /\ ctl_page = NoPage
    /\ escaped = FALSE
    /\ since_remote = CacheTTL
    /\ gpu_raw = NoDevices
    /\ gpu_out = NoGpu

(***************************************************************************)
(* main_logic                                                              *)
(***************************************************************************)
\* await scraper.initialize() (main.py 260-270): failure returns before the
\* try/finally
InitScraper(ok) ==
    /\ pc = "init"
    /\ scraper_open' = ok
    /\ pc' = IF ok THEN "top" ELSE "done"
    /\ UNCHANGED <<global_points, global_wus, last_known_project, cycle_index,
                   was_running_last_check, force_stats_sync, sync_status,
                   fifty_percent_synced, discord_lost_logged, fah_lost_logged,
                   last_discord_status, last_fah_status, update_interval,
                   percents, proj_ids, is_running, percent_float, detail_text,
                   state_text>>
    /\ UNCHANGED <<eventVars, sinkVars, stats_cache, cache_age, tickObs, runObs>>
    /\ UNCHANGED <<sleeps, supVars, harnessVars>>

\* the while condition and the connected check (main.py 298-300)
LoopTop ==
    /\ pc = "top"
    /\ pc' = IF restart_event \/ stop_event THEN "close_discord"
             ELSE IF NeedsConnect(connected) THEN "connect"
             ELSE "control"
    /\ UNCHANGED <<global_points, global_wus, last_known_project, cycle_index,
                   was_running_last_check, force_stats_sync, sync_status,
                   fifty_percent_synced, discord_lost_logged, fah_lost_logged,
                   last_discord_status, last_fah_status, update_interval,
                   percents, proj_ids, is_running, percent_float, detail_text,
                   state_text>>
    /\ UNCHANGED <<eventVars, sinkVars, scraperVars, tickObs, runObs>>
    /\ sleeps' = IF restart_event \/ stop_event THEN sleeps ELSE 0
    /\ UNCHANGED <<supVars, harnessVars>>

\* await discord.connect() and its two branches (main.py 301-316)
Connect(sdk_ok) ==
    /\ pc = "connect"
    /\ LET d == DiscordConnect(sdk_ok)
       IN  /\ connected' = d.connected
           /\ rpc' = d.rpc
           /\ calls' = Append(calls, Call("connect", d.ret, d.ext))
           /\ IF d.ret
              THEN /\ logs' = IF ~last_discord_status
                              THEN Append(logs, "discord_established") ELSE logs
                   /\ last_discord_status' = TRUE
                   /\ force_stats_sync' = TRUE
                   /\ discord_lost_logged' = FALSE
                   /\ outage' = FALSE
                   /\ outage_logs' = 0
                   /\ pc' = "control"
              ELSE /\ logs' = IF LossLogged(discord_lost_logged)
                              THEN Append(logs, "discord_not_found") ELSE logs
                   /\ discord_lost_logged' = TRUE
                   /\ last_discord_status' = IF LossLogged(discord_lost_logged)
                                             THEN FALSE ELSE last_discord_status
                   /\ force_stats_sync' = force_stats_sync
                   /\ outage' = TRUE
                   /\ outage_logs' = (IF outage THEN outage_logs ELSE 0)
                                       + (IF LossLogged(discord_lost_logged) THEN 1 ELSE 0)
                   /\ pc' = AfterConnectFailure
    /\ UNCHANGED <<global_points, global_wus, last_known_project, cycle_index,
                   was_running_last_check, sync_status, fifty_percent_synced,
                   fah_lost_logged, last_fah_status, update_interval,
                   percents, proj_ids, is_running, percent_float, detail_text,
                   state_text>>
    /\ UNCHANGED <<eventVars, scraperVars, pre, eval, tick_exc, ok_updates, fetched>>
    /\ UNCHANGED <<sleeps, supVars, harnessVars>>

\* await scraper.get_control_data() raises (main.py 323-332)
GetControlFail ==
    /\ pc = "control"
    /\ calls' = Append(calls, Call("get_control_data", FALSE, TRUE))
    /\ logs' = IF LossLogged(fah_lost_logged) THEN Append(logs, "fah_lost") ELSE logs
    /\ fah_lost_logged' = TRUE
    /\ last_fah_status' = IF LossLogged(fah_lost_logged) THEN FALSE ELSE last_fah_status
    /\ pc' = AfterControlFailure
    /\ UNCHANGED <<global_points, global_wus, last_known_project, cycle_index,
                   was_running_last_check, force_stats_sync, sync_status,
                   fifty_percent_synced, discord_lost_logged,
                   last_discord_status, update_interval,
                   percents, proj_ids, is_running, percent_float, detail_text,
                   state_text>>
    /\ UNCHANGED <<eventVars, sinkVars, scraperVars, pre, eval, tick_exc, runObs>>
    /\ UNCHANGED <<sleeps, supVars, harnessVars>>

\* await scraper.get_control_data() returns, and the code up to the next
\* await: discord.clear() when paused, scraper.get_global_stats() when a
\* refresh is attempted, else the GPU query, the display text and
\* discord.update() (main.py 321-373 and 387-477)
GetControlOk(page, gpu_raises, gpu) ==
    /\ pc = "control"
    /\ LET pcs == ControlPercents(page)
           ids == ControlProjIds(page)
           run == ControlIsRunning(page)
           lfs1 == TRUE
           restored == ~lfs1
           started == Started(run, was_running_last_check)
           paused == ~started /\ Paused(run, was_running_last_check)
           force1 == ForceOnStart(started, force_stats_sync)
           proj_id == IF ids # <<>> THEN ids[1] ELSE "Active"
           percent == IF pcs # <<>> THEN pcs[1] ELSE <<"0">>
           pf == PercentFloat(percent)
           fifty1 == ResetFifty(proj_id, last_known_project, fifty_percent_synced)
           needs_pull == NeedsPull(proj_id, last_known_project, pf, fifty1, sync_status, force1)
           attempt == AttemptRefresh(needs_pull, sync_status)
           d == Derive(gpu_raises, gpu, cycle_index, global_points, global_wus, ids, pcs)
           logs1 == IF restored THEN Append(logs, "fah_restored") ELSE logs
           logs2 == IF started THEN Append(logs1, "started")
                    ELSE IF paused THEN Append(logs1, "paused")
                    ELSE logs1
           calls1 == Append(calls, Call("get_control_data", TRUE, TRUE))
       IN  /\ percents' = pcs
           /\ proj_ids' = ids
           /\ is_running' = run
           /\ last_fah_status' = lfs1
           /\ fah_lost_logged' = IF restored THEN FALSE ELSE fah_lost_logged
           /\ was_running_last_check' = run
           /\ IF ~RunningBranch(run)
              THEN /\ pc' = "clear"
                   /\ force_stats_sync' = force1
                   /\ logs' = logs2
                   /\ calls' = calls1
                   /\ UNCHANGED <<percent_float, fifty_percent_synced, sync_status,
                                  last_known_project, eval, tick_exc, detail_text,
                                  state_text>>
              ELSE /\ percent_float' = pf
                   /\ fifty_percent_synced' = fifty1
                   /\ eval' = [done |-> TRUE, proj_id |-> proj_id, percent_float |-> pf,
                               fifty |-> fifty1, needs_pull |-> needs_pull,
                               sync_status |-> sync_status, force |-> force1,
                               last_known |-> last_known_project]
                   /\ IF attempt
                      THEN /\ sync_status' = "pending"
                           /\ force_stats_sync' = ForceAfterAttempt(force1)
                           /\ last_known_project' = proj_id
                           /\ logs' = Append(logs2, "statsync")
                           /\ calls' = calls1
                           /\ pc' = "stats"
                           /\ UNCHANGED <<tick_exc, detail_text, state_text>>
                      ELSE /\ force_stats_sync' = force1
                           /\ logs' = logs2
                           /\ calls' = Append(calls1, Call("get_all_gpu_data", ~gpu_raises, GpuDelivered(gpu_raises, gpu)))
                           /\ tick_exc' = d.raised
                           /\ detail_text' = d.detail
                           /\ state_text' = d.state
                           /\ pc' = IF d.raised THEN AfterTickException ELSE "update"
                           /\ UNCHANGED <<sync_status, last_known_project>>
    /\ UNCHANGED <<global_points, global_wus, cycle_index, discord_lost_logged,
                   last_discord_status, update_interval>>
    /\ UNCHANGED <<eventVars, sinkVars, scraperVars, pre, runObs>>
    /\ UNCHANGED <<sleeps, supVars, harnessVars>>

\* await scraper.get_global_stats() and the code up to discord.update()
\* (main.py 373-477)
GetStats(loaded, page, gpu_raises, gpu) ==
    /\ pc = "stats"
    /\ LET r == GetGlobalStats(stats_cache, cache_age, loaded, page)
           new_pts == r.ret[1]
           new_wus == r.ret[2]
           truthy == Truthy(new_pts)
           pts1 == IF truthy THEN new_pts ELSE global_points
           wus1 == IF truthy THEN new_wus ELSE global_wus
           d == Derive(gpu_raises, gpu, cycle_index, pts1, wus1, proj_ids, percents)
       IN  /\ stats_cache' = r.cache
           /\ cache_age' = r.age
           /\ global_points' = pts1
           /\ global_wus' = wus1
           /\ sync_status' = StatusAfterFetch(truthy)
           /\ fifty_percent_synced' = MarkFifty(truthy, percent_float, fifty_percent_synced)
           /\ logs' = IF truthy THEN Append(logs, "statsync_ok") ELSE logs
           /\ fetched' = (fetched \/ (new_pts # NoneVal /\ new_wus # NoneVal))
           /\ calls' = calls \o << Call("get_global_stats", truthy, r.remote),
                                   Call("get_all_gpu_data", ~gpu_raises, GpuDelivered(gpu_raises, gpu)) >>
           /\ tick_exc' = d.raised
           /\ detail_text' = d.detail
           /\ state_text' = d.state
           /\ pc' = IF d.raised THEN AfterTickException ELSE "update"
    /\ UNCHANGED <<last_known_project, cycle_index, was_running_last_check,
                   force_stats_sync, discord_lost_logged, fah_lost_logged,
                   last_discord_status, last_fah_status, update_interval,
                   percents, proj_ids, is_running, percent_float>>
    /\ UNCHANGED <<eventVars, sinkVars, scraper_open, pre, eval,
                   ok_updates, outage, outage_logs>>
    /\ UNCHANGED <<sleeps, supVars, harnessVars>>

\* await discord.update(detail_text, state_text) and its branches
\* (main.py 476-493).  DiscordRPC.update() catches every Exception
\* (discord_rpc.py 96), so the except branch of main.py 489 is not taken.
Update(sdk_ok) ==
    /\ pc = "update"
    /\ sdk_ok => cycle_index < MaxCycle
    /\ LET d == DiscordUpdate(connected, rpc, sdk_ok)
       IN  /\ connected' = d.connected
           /\ rpc' = d.rpc
           /\ calls' = Append(calls, Call("update", d.ret, d.ext))
           /\ IF d.ret
              THEN /\ ok_updates' = ok_updates + 1
                   /\ logs' = Append(logs, "presence")
                   /\ UNCHANGED <<discord_lost_logged, outage, outage_logs>>
              ELSE /\ logs' = IF LossLogged(discord_lost_logged)
                              THEN Append(logs, "discord_not_found") ELSE logs
                   /\ discord_lost_logged' = TRUE
                   /\ outage' = TRUE
                   /\ outage_logs' = (IF outage THEN outage_logs ELSE 0)
                                       + (IF LossLogged(discord_lost_logged) THEN 1 ELSE 0)
                   /\ UNCHANGED ok_updates
           /\ cycle_index' = CycleAfterUpdate(d.ret, cycle_index)
           /\ pc' = IF d.ret THEN "sleep" ELSE AfterUpdateFailure
    /\ UNCHANGED <<global_points, global_wus, last_known_project,
                   was_running_last_check, force_stats_sync, sync_status,
                   fifty_percent_synced, fah_lost_logged,
                   last_discord_status, last_fah_status, update_interval,
                   percents, proj_ids, is_running, percent_float, detail_text,
                   state_text>>
    /\ UNCHANGED <<eventVars, scraperVars, pre, eval, tick_exc, fetched>>
    /\ UNCHANGED <<sleeps, supVars, harnessVars>>

\* await discord.clear() (main.py 494-500)
Clear(sdk_ok) ==
    /\ pc = "clear"
    /\ LET d == DiscordClear(connected, rpc, sdk_ok)
       IN  /\ connected' = d.connected
           /\ rpc' = d.rpc
           /\ calls' = Append(calls, Call("clear", d.ret, d.ext))
    /\ pc' = "sleep"
    /\ UNCHANGED <<global_points, global_wus, last_known_project, cycle_index,
                   was_running_last_check, force_stats_sync, sync_status,
                   fifty_percent_synced, discord_lost_logged, fah_lost_logged,
                   last_discord_status, last_fah_status, update_interval,
                   percents, proj_ids, is_running, percent_float, detail_text,
                   state_text>>
    /\ UNCHANGED <<eventVars, scraperVars, logs, pre, eval, tick_exc, runObs>>
    /\ UNCHANGED <<sleeps, supVars, harnessVars>>

\* await asyncio.sleep(update_interval): the tick ends (main.py 315, 331,
\* 505, 508).  The tick's locals are dead from here and are reset.
Sleep ==
    /\ pc = "sleep"
    /\ cache_age' = Min(cache_age + update_interval, CacheTTL)
    /\ pc' = "top"
    /\ percents' = <<>>
    /\ proj_ids' = <<>>
    /\ is_running' = FALSE
    /\ percent_float' = 0
    /\ detail_text' = NoneVal
    /\ state_text' = NoneVal
    /\ calls' = <<>>
    /\ logs' = <<>>
    /\ eval' = NoEval
    /\ tick_exc' = FALSE
    /\ pre' = Snapshot(cycle_index, sync_status, last_known_project,
                       fifty_percent_synced, force_stats_sync,
                       was_running_last_check, global_points, global_wus, connected)
    /\ UNCHANGED <<global_points, global_wus, last_known_project, cycle_index,
                   was_running_last_check, force_stats_sync, sync_status,
                   fifty_percent_synced, discord_lost_logged, fah_lost_logged,
                   last_discord_status, last_fah_status, update_interval>>
    /\ UNCHANGED <<eventVars, sinkVars, scraper_open, stats_cache, runObs>>
    /\ sleeps' = sleeps + 1
    /\ UNCHANGED <<supVars, harnessVars>>

\* finally: await discord.close() (main.py 514-519)
CloseDiscord(sdk_ok) ==
    /\ pc = "close_discord"
    /\ LET d == DiscordClose(connected, rpc, sdk_ok)
       IN  /\ connected' = d.connected
           /\ rpc' = d.rpc
           /\ calls' = Append(calls, Call("close", d.ret, d.ext))
    /\ pc' = "close_scraper"
    /\ UNCHANGED <<global_points, global_wus, last_known_project, cycle_index,
                   was_running_last_check, force_stats_sync, sync_status,
                   fifty_percent_synced, discord_lost_logged, fah_lost_logged,
                   last_discord_status, last_fah_status, update_interval,
                   percents, proj_ids, is_running, percent_float, detail_text,
                   state_text>>
    /\ UNCHANGED <<eventVars, scraperVars, logs, pre, eval, tick_exc, runObs>>
    /\ UNCHANGED <<sleeps, supVars, harnessVars>>

\* finally: await scraper.close() (main.py 521-527)
CloseScraper ==
    /\ pc = "close_scraper"
    /\ scraper_open' = FALSE
    /\ calls' = Append(calls, Call("scraper_close", TRUE, TRUE))
    /\ pc' = "shutdown_sleep"
    /\ UNCHANGED <<global_points, global_wus, last_known_project, cycle_index,
                   was_running_last_check, force_stats_sync, sync_status,
                   fifty_percent_synced, discord_lost_logged, fah_lost_logged,
                   last_discord_status, last_fah_status, update_interval,
                   percents, proj_ids, is_running, percent_float, detail_text,
                   state_text>>
    /\ UNCHANGED <<eventVars, sinkVars, stats_cache, cache_age, logs, pre, eval,
                   tick_exc, runObs>>
    /\ UNCHANGED <<sleeps, supVars, harnessVars>>

\* finally: await asyncio.sleep(0.5) and the end of the task (main.py 529-533)
ShutdownSleep ==
    /\ pc = "shutdown_sleep"
    /\ pc' = "done"
    /\ UNCHANGED <<global_points, global_wus, last_known_project, cycle_index,
                   was_running_last_check, force_stats_sync, sync_status,
                   fifty_percent_synced, discord_lost_logged, fah_lost_logged,
                   last_discord_status, last_fah_status, update_interval,
                   percents, proj_ids, is_running, percent_float, detail_text,
                   state_text>>
    /\ UNCHANGED <<eventVars, sinkVars, scraperVars, tickObs, runObs>>
    /\ UNCHANGED <<sleeps, supVars, harnessVars>>

(***************************************************************************)
(* The tray menu and the signal handler (tray.py on_restart, on_exit;      *)
(* main.py signal_handler)                                                 *)
(***************************************************************************)
\* The loop reads the flags only in its while condition (pc = "top"), so
\* a flag set while a tick runs is set here, where it is read.
SetRestart ==
    /\ pc = "top"
    /\ restart_event' = TRUE
    /\ UNCHANGED <<loopVars, stop_event, sinkVars, scraperVars, tickObs, runObs>>
    /\ UNCHANGED <<sleeps, supVars, harnessVars>>

SetStop ==
    /\ pc = "top"
    /\ stop_event' = TRUE
    /\ UNCHANGED <<loopVars, restart_event, sinkVars, scraperVars, tickObs, runObs>>
    /\ UNCHANGED <<sleeps, supVars, harnessVars>>

Next ==
    \/ \E ok \in BOOLEAN : InitScraper(ok)
    \/ LoopTop
    \/ \E sdk_ok \in BOOLEAN : Connect(sdk_ok)
    \/ GetControlFail
    \/ \E page \in ControlPages, gpu_raises \in BOOLEAN, gpu \in GpuResults :
          GetControlOk(page, gpu_raises, gpu)
    \/ \E loaded \in BOOLEAN, page \in StatsPages, gpu_raises \in BOOLEAN, gpu \in GpuResults :
          GetStats(loaded, page, gpu_raises, gpu)
    \/ \E sdk_ok \in BOOLEAN : Update(sdk_ok)
    \/ \E sdk_ok \in BOOLEAN : Clear(sdk_ok)
    \/ Sleep
    \/ \E sdk_ok \in BOOLEAN : CloseDiscord(sdk_ok)
    \/ CloseScraper
    \/ ShutdownSleep
    \/ SetRestart
    \/ SetStop

Spec == Init /\ [][Next]_vars

\* the steps of the task itself: every await of main_logic returns (the
\* leaf calls bound their waits, asyncio.sleep() ends), so the task goes on
\* as long as it has a step to take
LoopStep ==
    \/ \E ok \in BOOLEAN : InitScraper(ok)
    \/ LoopTop
    \/ \E sdk_ok \in BOOLEAN : Connect(sdk_ok)
    \/ GetControlFail
    \/ \E page \in ControlPages, gpu_raises \in BOOLEAN, gpu \in GpuResults :
          GetControlOk(page, gpu_raises, gpu)
    \/ \E loaded \in BOOLEAN, page \in StatsPages, gpu_raises \in BOOLEAN, gpu \in GpuResults :
          GetStats(loaded, page, gpu_raises, gpu)
    \/ \E sdk_ok \in BOOLEAN : Update(sdk_ok)
    \/ \E sdk_ok \in BOOLEAN : Clear(sdk_ok)
    \/ Sleep
    \/ \E sdk_ok \in BOOLEAN : CloseDiscord(sdk_ok)
    \/ CloseScraper
    \/ ShutdownSleep

SpecFair == Spec /\ WF_vars(LoopStep)

TypeOK ==
    /\ pc \in {"init", "top", "connect", "control", "stats", "update", "clear",
               "sleep", "close_discord", "close_scraper", "shutdown_sleep", "done"}
    /\ sync_status \in {"idle", "pending", "synced"}
    /\ cycle_index \in 0..MaxCycle
    /\ connected \in BOOLEAN
    /\ cache_age \in 0..CacheTTL

(***************************************************************************)
(* DiscordRPC driven by an arbitrary caller: any sequence of connect(),    *)
(* update(), clear() and close() with any SDK outcome.                     *)
(***************************************************************************)
MaxCalls == 4

InitSink ==
    /\ pc = "sink"
    /\ global_points = Placeholder
    /\ global_wus = Placeholder
    /\ last_known_project = NoneVal
    /\ cycle_index = 0
    /\ was_running_last_check = TRUE
    /\ force_stats_sync = FALSE
    /\ sync_status = "idle"
    /\ fifty_percent_synced = FALSE
    /\ discord_lost_logged = FALSE
    /\ fah_lost_logged = FALSE
    /\ last_discord_status = FALSE
    /\ last_fah_status = FALSE
    /\ update_interval \in UpdateIntervals
    /\ percents = <<>>
    /\ proj_ids = <<>>
    /\ is_running = FALSE
    /\ percent_float = 0
    /\ detail_text = NoneVal
    /\ state_text = NoneVal
    /\ restart_event = FALSE
    /\ stop_event = FALSE
    /\ connected = FALSE
    /\ rpc = NoneVal
    /\ scraper_open = FALSE
    /\ stats_cache = <<>>
    /\ cache_age = CacheTTL
    /\ calls = <<>>
    /\ logs = <<>>
    /\ pre = Snapshot(0, "idle", NoneVal, FALSE, FALSE, TRUE, Placeholder, Placeholder, FALSE)
    /\ eval = NoEval
    /\ tick_exc = FALSE
    /\ ok_updates = 0
    /\ outage = FALSE
    /\ outage_logs = 0
    /\ fetched = FALSE
    /\ sleeps = 0
    /\ sup_pc = "poll_sleep"
    /\ tasks_started = 1
    /\ cancelled = FALSE
    /\ prev = NoPrev
    /\ ctl_page = NoPage
    /\ escaped = FALSE
    /\ since_remote = CacheTTL
    /\ gpu_raw = NoDevices
    /\ gpu_out = NoGpu

SinkStep(op, d) ==
    /\ pc = "sink"
    /\ Len(calls) < MaxCalls
    /\ connected' = d.connected
    /\ rpc' = d.rpc
    /\ calls' = Append(calls, Call(op, d.ret, d.ext))
    /\ escaped' = (escaped \/ d.raised)
    /\ UNCHANGED <<loopVars, eventVars, scraperVars, logs, pre, eval, tick_exc, runObs>>
    /\ UNCHANGED <<sleeps, supVars, ctl_page, since_remote, gpu_raw, gpu_out>>

SinkConnect(sdk_ok) == SinkStep("connect", DiscordConnect(sdk_ok))

SinkUpdate(sdk_ok) == SinkStep("update", DiscordUpdate(connected, rpc, sdk_ok))

SinkClear(sdk_ok) == SinkStep("clear", DiscordClear(connected, rpc, sdk_ok))

SinkClose(sdk_ok) == SinkStep("close", DiscordClose(connected, rpc, sdk_ok))

NextSink ==
    \/ \E sdk_ok \in BOOLEAN : SinkConnect(sdk_ok)
    \/ \E sdk_ok \in BOOLEAN : SinkUpdate(sdk_ok)
    \/ \E sdk_ok \in BOOLEAN : SinkClear(sdk_ok)
    \/ \E sdk_ok \in BOOLEAN : SinkClose(sdk_ok)

SpecSink == InitSink /\ [][NextSink]_vars

(***************************************************************************)
(* The sink and FAHScraper.get_global_stats() driven by an arbitrary       *)
(* caller while time passes in steps of one update interval.               *)
(***************************************************************************)
\* await scraper.get_global_stats() (scraper.py 139-171)
StatsCall(loaded, page) ==
    /\ pc = "sink"
    /\ Len(calls) < MaxCalls
    /\ LET r == GetGlobalStats(stats_cache, cache_age, loaded, page)
       IN  /\ stats_cache' = r.cache
           /\ cache_age' = r.age
           /\ since_remote' = IF r.remote THEN 0 ELSE since_remote
           /\ calls' = Append(calls, Call("get_global_stats", Truthy(r.ret[1]), r.remote))
           /\ escaped' = (escaped \/ r.raised)
    /\ UNCHANGED <<loopVars, eventVars, sinkVars, scraper_open, logs, pre, eval,
                   tick_exc, runObs>>
    /\ UNCHANGED <<sleeps, supVars, ctl_page, gpu_raw, gpu_out>>

\* time.time() advances by one update interval between two calls
Elapse ==
    /\ pc = "sink"
    /\ cache_age < CacheTTL \/ since_remote < CacheTTL
    /\ cache_age' = Min(cache_age + update_interval, CacheTTL)
    /\ since_remote' = Min(since_remote + update_interval, CacheTTL)
    /\ UNCHANGED <<loopVars, eventVars, sinkVars, scraper_open, stats_cache,
                   tickObs, runObs>>
    /\ UNCHANGED <<sleeps, supVars, ctl_page, escaped, gpu_raw, gpu_out>>

NextLeaves ==
    \/ NextSink
    \/ \E loaded \in BOOLEAN, page \in StatsPages : StatsCall(loaded, page)
    \/ Elapse

SpecLeaves == InitSink /\ [][NextLeaves]_vars

(***************************************************************************)
(* main_loop supervising main_logic (main.py 535-558), with the tray and   *)
(* the signal handler setting the flags from outside at any moment.        *)
(*                                                                         *)
(* The supervisor and the task are coroutines of one event loop: the task  *)
(* takes a step only while the supervisor is suspended in an await.  The   *)
(* flags are threading.Event objects set from another thread or from a     *)
(* signal handler, so a flag can change between any two reads.             *)
(***************************************************************************)
MaxTasks == 2

\* what the endpoints serve while the supervisor is exercised: a running
\* queue, a queue with two task IDs and one percentage, a paused queue
LifeControlPages ==
    { [progress_text |-> << <<"5", "1", ".", "5", "%">> >>, ids |-> <<"18201">>,
       state_run |-> 1],
      [progress_text |-> << <<"7", "2", "%">> >>, ids |-> <<"18202", "18201">>,
       state_run |-> 1],
      [progress_text |-> << <<"5", "1", ".", "5", "%">> >>, ids |-> <<"18201">>,
       state_run |-> 0] }

LifeStatsPages ==
    { [points |-> <<PointsFig>>, wus |-> <<WusFig>>],
      [points |-> <<>>, wus |-> <<>>] }

LifeGpuResults ==
    { [gpu_data |-> <<>>, utilizations |-> <<>>, temperatures |-> <<>>] }

\* the locals a task starts with (main.py 279-289)
FreshLocals_Stale ==
    [global_points |-> Placeholder, global_wus |-> Placeholder,
     last_known_project |-> NoneVal, cycle_index |-> 1,
     was_running_last_check |-> TRUE, force_stats_sync |-> FALSE,
     sync_status |-> "synced", fifty_percent_synced |-> FALSE,
     discord_lost_logged |-> FALSE, fah_lost_logged |-> FALSE,
     last_discord_status |-> FALSE, last_fah_status |-> FALSE]

FreshLocals ==
    [global_points |-> Placeholder, global_wus |-> Placeholder,
     last_known_project |-> NoneVal, cycle_index |-> 0,
     was_running_last_check |-> TRUE, force_stats_sync |-> FALSE,
     sync_status |-> "idle", fifty_percent_synced |-> FALSE,
     discord_lost_logged |-> FALSE, fah_lost_logged |-> FALSE,
     last_discord_status |-> FALSE, last_fah_status |-> FALSE]

\* main_loop entered, no task created yet
InitLife ==
    /\ pc = "none"
    /\ global_points = Placeholder
    /\ global_wus = Placeholder
    /\ last_known_project = NoneVal
    /\ cycle_index = 0
    /\ was_running_last_check = TRUE
    /\ force_stats_sync = FALSE
    /\ sync_status = "idle"
    /\ fifty_percent_synced = FALSE
    /\ discord_lost_logged = FALSE
    /\ fah_lost_logged = FALSE
    /\ last_discord_status = FALSE
    /\ last_fah_status = FALSE
    /\ update_interval \in UpdateIntervals
    /\ percents = <<>>
    /\ proj_ids = <<>>
    /\ is_running = FALSE
    /\ percent_float = 0
    /\ detail_text = NoneVal
    /\ state_text = NoneVal
    /\ restart_event = FALSE
    /\ stop_event = FALSE
    /\ connected = FALSE
    /\ rpc = NoneVal
    /\ scraper_open = FALSE
    /\ stats_cache = <<>>
    /\ cache_age = CacheTTL
    /\ calls = <<>>
    /\ logs = <<>>
    /\ pre = Snapshot(0, "idle", NoneVal, FALSE, FALSE, TRUE, Placeholder, Placeholder, FALSE)
    /\ eval = NoEval
    /\ tick_exc = FALSE
    /\ ok_updates = 0
    /\ outage = FALSE
    /\ outage_logs = 0
    /\ fetched = FALSE
    /\ sleeps = 0
    /\ sup_pc = "while"
    /\ tasks_started = 0
    /\ cancelled = FALSE
    /\ prev = NoPrev
    /\ ctl_page = NoPage
    /\ escaped = FALSE
    /\ since_remote = CacheTTL
    /\ gpu_raw = NoDevices
    /\ gpu_out = NoGpu

\* the supervisor is suspended in one of its awaits (main.py 546, 550,
\* 554, 558)
SupSuspended == sup_pc \in {"poll_sleep", "await_task", "half_sleep", "restart_sleep"}

\* while not stop_event.is_set() (main.py 541)
SupWhile_IgnoresStop ==
    /\ sup_pc = "while"
    /\ sup_pc' = "clear"
    /\ UNCHANGED <<loopVars, eventVars, sinkVars, scraperVars, tickObs, runObs,
                   sleeps, tasks_started, cancelled, prev, harnessVars>>

SupWhile ==
    /\ sup_pc = "while"
    /\ sup_pc' = IF stop_event THEN "returned" ELSE "clear"
    /\ UNCHANGED <<loopVars, eventVars, sinkVars, scraperVars, tickObs, runObs,
                   sleeps, tasks_started, cancelled, prev, harnessVars>>

\* restart_event.clear(); task = asyncio.create_task(main_logic())
\* (main.py 542-543): a new coroutine with its own locals, and in it a new
\* FAHScraper and a new DiscordRPC (main.py 255, 275-289; scraper.py 83-91;
\* discord_rpc.py 46-48)
SupCreate ==
    /\ sup_pc = "clear"
    /\ tasks_started < MaxTasks
    /\ restart_event' = FALSE
    /\ tasks_started' = tasks_started + 1
    /\ cancelled' = FALSE
    /\ prev' = Left(pc, cycle_index, stats_cache, stop_event)
    /\ sup_pc' = "poll_check"
    /\ pc' = "created"
    /\ global_points' = FreshLocals.global_points
    /\ global_wus' = FreshLocals.global_wus
    /\ last_known_project' = FreshLocals.last_known_project
    /\ cycle_index' = FreshLocals.cycle_index
    /\ was_running_last_check' = FreshLocals.was_running_last_check
    /\ force_stats_sync' = FreshLocals.force_stats_sync
    /\ sync_status' = FreshLocals.sync_status
    /\ fifty_percent_synced' = FreshLocals.fifty_percent_synced
    /\ discord_lost_logged' = FreshLocals.discord_lost_logged
    /\ fah_lost_logged' = FreshLocals.fah_lost_logged
    /\ last_discord_status' = FreshLocals.last_discord_status
    /\ last_fah_status' = FreshLocals.last_fah_status
    /\ percents' = <<>>
    /\ proj_ids' = <<>>
    /\ is_running' = FALSE
    /\ percent_float' = 0
    /\ detail_text' = NoneVal
    /\ state_text' = NoneVal
    /\ connected' = FALSE
    /\ rpc' = NoneVal
    /\ scraper_open' = FALSE
    /\ stats_cache' = <<>>
    /\ cache_age' = CacheTTL
    /\ calls' = <<>>
    /\ logs' = <<>>
    /\ pre' = Snapshot(0, "idle", NoneVal, FALSE, FALSE, TRUE, Placeholder, Placeholder, FALSE)
    /\ eval' = NoEval
    /\ tick_exc' = FALSE
    /\ ok_updates' = 0
    /\ outage' = FALSE
    /\ outage_logs' = 0
    /\ fetched' = FALSE
    /\ sleeps' = 0
    /\ UNCHANGED <<update_interval, stop_event, harnessVars>>

\* while not restart_event.is_set() and not stop_event.is_set()
\* (main.py 545)
SupPollCheck_IgnoresRestart ==
    /\ sup_pc = "poll_check"
    /\ sup_pc' = IF stop_event THEN "cancel" ELSE "poll_sleep"
    /\ UNCHANGED <<loopVars, eventVars, sinkVars, scraperVars, tickObs, runObs,
                   sleeps, tasks_started, cancelled, prev, harnessVars>>

SupPollCheck ==
    /\ sup_pc = "poll_check"
    /\ sup_pc' = IF restart_event \/ stop_event THEN "cancel" ELSE "poll_sleep"
    /\ UNCHANGED <<loopVars, eventVars, sinkVars, scraperVars, tickObs, runObs,
                   sleeps, tasks_started, cancelled, prev, harnessVars>>

\* await asyncio.sleep(1) returns (main.py 546)
SupPollSleep ==
    /\ sup_pc = "poll_sleep"
    /\ sup_pc' = "poll_check"
    /\ UNCHANGED <<loopVars, eventVars, sinkVars, scraperVars, tickObs, runObs,
                   sleeps, tasks_started, cancelled, prev, harnessVars>>

\* asyncio.CancelledError thrown into the task at the await it is suspended
\* in: where the task goes and what it leaves of its objects.
\* CancelledError is not an Exception, so no except clause of main_logic,
\* DiscordRPC or FAHScraper catches it.
\*   - not started yet: the coroutine ends without running;
\*   - in scraper.initialize() (main.py 262): outside the try/finally of
\*     main.py 297-510, the task ends with the browser processes it had
\*     launched so far (held) still there;
\*   - inside the while loop: the finally clause starts; in discord.connect()
\*     self.rpc is already assigned (discord_rpc.py 58);
\*   - in the finally clause: the exception leaves the clause and the rest
\*     of it is skipped.  In discord.close() with an SDK session the throw
\*     lands in rpc.close() (discord_rpc.py 113) before the fields are
\*     reset; without one close() has no await and the throw lands in
\*     scraper.close() (scraper.py 177).
CancelAt(p, conn, r, open, held) ==
    CASE p = "created" ->
           [pc |-> "done", connected |-> conn, rpc |-> r, scraper_open |-> open]
      [] p = "init" ->
           [pc |-> "done", connected |-> conn, rpc |-> r, scraper_open |-> held]
      [] p = "connect" ->
           [pc |-> "close_discord", connected |-> conn, rpc |-> "AioPresence",
            scraper_open |-> open]
      [] p \in {"top", "control", "stats", "update", "clear", "sleep"} ->
           [pc |-> "close_discord", connected |-> conn, rpc |-> r, scraper_open |-> open]
      [] p = "close_discord" /\ r # NoneVal ->
           [pc |-> "done", connected |-> conn, rpc |-> r, scraper_open |-> open]
      [] p = "close_discord" /\ r = NoneVal ->
           [pc |-> "done", connected |-> FALSE, rpc |-> NoneVal, scraper_open |-> open]
      [] p \in {"close_scraper", "shutdown_sleep", "done"} ->
           [pc |-> "done", connected |-> conn, rpc |-> r, scraper_open |-> open]

\* task.cancel() and the start of await task (main.py 548-550): the next
\* step of the task is the throw
SupCancel(held) ==
    /\ sup_pc = "cancel"
    /\ sup_pc' = "await_task"
    /\ cancelled' = (pc # "done")
    /\ LET c == CancelAt(pc, connected, rpc, scraper_open, held)
       IN  /\ pc' = c.pc
           /\ connected' = c.connected
           /\ rpc' = c.rpc
           /\ scraper_open' = c.scraper_open
    /\ UNCHANGED <<global_points, global_wus, last_known_project, cycle_index,
                   was_running_last_check, force_stats_sync, sync_status,
                   fifty_percent_synced, discord_lost_logged, fah_lost_logged,
                   last_discord_status, last_fah_status, update_interval,
                   percents, proj_ids, is_running, percent_float, detail_text,
                   state_text>>
    /\ UNCHANGED <<eventVars, stats_cache, cache_age, tickObs, runObs, sleeps,
                   tasks_started, prev, harnessVars>>

\* await task returns or raises CancelledError, which is passed
\* (main.py 549-552): the task has finished
SupAwaitTask_NoWait ==
    /\ sup_pc = "await_task"
    /\ sup_pc' = "half_sleep"
    /\ UNCHANGED <<loopVars, eventVars, sinkVars, scraperVars, tickObs, runObs,
                   sleeps, tasks_started, cancelled, prev, harnessVars>>

SupAwaitTask ==
    /\ sup_pc = "await_task"
    /\ pc = "done"
    /\ sup_pc' = "half_sleep"
    /\ UNCHANGED <<loopVars, eventVars, sinkVars, scraperVars, tickObs, runObs,
                   sleeps, tasks_started, cancelled, prev, harnessVars>>

\* await asyncio.sleep(0.5) returns (main.py 554)
SupHalfSleep ==
    /\ sup_pc = "half_sleep"
    /\ sup_pc' = "notice"
    /\ UNCHANGED <<loopVars, eventVars, sinkVars, scraperVars, tickObs, runObs,
                   sleeps, tasks_started, cancelled, prev, harnessVars>>

\* if restart_event.is_set(): print, await asyncio.sleep(1)
\* (main.py 556-558)
SupNotice_Clears ==
    /\ sup_pc = "notice"
    /\ sup_pc' = IF restart_event THEN "restart_sleep" ELSE "while"
    /\ restart_event' = FALSE
    /\ UNCHANGED <<loopVars, stop_event, sinkVars, scraperVars, tickObs, runObs,
                   sleeps, tasks_started, cancelled, prev, harnessVars>>

SupNotice ==
    /\ sup_pc = "notice"
    /\ sup_pc' = IF restart_event THEN "restart_sleep" ELSE "while"
    /\ UNCHANGED <<loopVars, eventVars, sinkVars, scraperVars, tickObs, runObs,
                   sleeps, tasks_started, cancelled, prev, harnessVars>>

SupRestartSleep ==
    /\ sup_pc = "restart_sleep"
    /\ sup_pc' = "while"
    /\ UNCHANGED <<loopVars, eventVars, sinkVars, scraperVars, tickObs, runObs,
                   sleeps, tasks_started, cancelled, prev, harnessVars>>

\* the first step of the task: main_logic up to await scraper.initialize()
\* (main.py 200-262); the task returns when GPUMonitor() raises
\* (main.py 221-227)
StartTask(gpu_ok) ==
    /\ pc = "created"
    /\ pc' = IF gpu_ok THEN "init" ELSE "done"
    /\ UNCHANGED <<global_points, global_wus, last_known_project, cycle_index,
                   was_running_last_check, force_stats_sync, sync_status,
                   fifty_percent_synced, discord_lost_logged, fah_lost_logged,
                   last_discord_status, last_fah_status, update_interval,
                   percents, proj_ids, is_running, percent_float, detail_text,
                   state_text>>
    /\ UNCHANGED <<eventVars, sinkVars, scraperVars, tickObs, runObs, sleeps,
                   supVars, harnessVars>>

\* the tray menu (tray.py 130-135) and the signal handler (main.py 577-581)
OnRestart ==
    /\ restart_event' = TRUE
    /\ UNCHANGED <<loopVars, stop_event, sinkVars, scraperVars, tickObs, runObs,
                   sleeps, supVars, harnessVars>>

OnExit ==
    /\ stop_event' = TRUE
    /\ UNCHANGED <<loopVars, restart_event, sinkVars, scraperVars, tickObs, runObs,
                   sleeps, supVars, harnessVars>>

SignalHandler ==
    /\ stop_event' = TRUE
    /\ UNCHANGED <<loopVars, restart_event, sinkVars, scraperVars, tickObs, runObs,
                   sleeps, supVars, harnessVars>>

\* a step of the task, taken while the supervisor is suspended
TaskStep ==
    /\ SupSuspended
    /\ \/ \E gpu_ok \in BOOLEAN : StartTask(gpu_ok)
       \/ \E ok \in BOOLEAN : InitScraper(ok)
       \/ LoopTop
       \/ \E sdk_ok \in BOOLEAN : Connect(sdk_ok)
       \/ GetControlFail
       \/ \E page \in LifeControlPages, gpu \in LifeGpuResults :
             GetControlOk(page, FALSE, gpu)
       \/ \E loaded \in BOOLEAN, page \in LifeStatsPages, gpu \in LifeGpuResults :
             GetStats(loaded, page, FALSE, gpu)
       \/ \E sdk_ok \in BOOLEAN : Update(sdk_ok)
       \/ \E sdk_ok \in BOOLEAN : Clear(sdk_ok)
       \/ Sleep
       \/ \E sdk_ok \in BOOLEAN : CloseDiscord(sdk_ok)
       \/ CloseScraper
       \/ ShutdownSleep

NextLife ==
    \/ SupWhile
    \/ SupCreate
    \/ SupPollCheck
    \/ SupPollSleep
    \/ \E held \in BOOLEAN : SupCancel(held)
    \/ SupAwaitTask
    \/ SupHalfSleep
    \/ SupNotice
    \/ SupRestartSleep
    \/ TaskStep
    \/ OnRestart
    \/ OnExit
    \/ SignalHandler

SpecLife == InitLife /\ [][NextLife]_vars

\* the steps of main_loop: its sleeps end, and await task returns once the
\* task has finished
SupStep ==
    \/ SupWhile
    \/ SupCreate
    \/ SupPollCheck
    \/ SupPollSleep
    \/ \E held \in BOOLEAN : SupCancel(held)
    \/ SupAwaitTask
    \/ SupHalfSleep
    \/ SupNotice
    \/ SupRestartSleep

\* the event loop runs every coroutine that is ready, and the awaits of
\* the task return; the tray and the signal handler need never act
SpecLifeFair == SpecLife /\ WF_vars(SupStep) /\ WF_vars(TaskStep)

(***************************************************************************)
(* FAHScraper.get_control_data() on its own (scraper.py 107-137): one call *)
(* against any page the control endpoint can serve, or against an endpoint *)
(* that cannot be reached.                                                 *)
(***************************************************************************)
MaxElems == 2

\* the textContent of a .progress-text element: blank, or a percentage
ProgressTexts ==
    { <<" ">>, <<"4", "9", "%">>, <<"5", "1", ".", "5", "%">> }

RECURSIVE SeqsUpTo(_, _)
\* the sequences over S of length at most n
SeqsUpTo(S, n) ==
    IF n = 0 THEN { <<>> }
    ELSE LET shorter == SeqsUpTo(S, n - 1)
         IN  shorter \cup { Append(q, x) : q \in shorter, x \in S }

\* the 5-digit numbers in the page content, in page order
IdLists == { <<>>, <<"18201">>, <<"18202", "18201">> }

ServedPages ==
    { [reachable |-> TRUE, progress_text |-> t, ids |-> i, state_run |-> n] :
        t \in SeqsUpTo(ProgressTexts, MaxElems), i \in IdLists, n \in {0, 1} }
      \cup { NoPage }

\* get_control_data(): goto() raises when the endpoint cannot be reached
\* and the except clause re-raises; otherwise the three values are returned
GetControlData(page) ==
    IF page.reachable
    THEN [raised |-> FALSE, percents |-> ControlPercents(page),
          proj_ids |-> ControlProjIds(page), is_running |-> ControlIsRunning(page)]
    ELSE [raised |-> TRUE, percents |-> <<>>, proj_ids |-> <<>>, is_running |-> FALSE]

InitControl ==
    /\ pc = "ctl_call"
    /\ ctl_page \in ServedPages
    /\ escaped = FALSE
    /\ since_remote = CacheTTL
    /\ gpu_raw = NoDevices
    /\ gpu_out = NoGpu
    /\ global_points = Placeholder
    /\ global_wus = Placeholder
    /\ last_known_project = NoneVal
    /\ cycle_index = 0
    /\ was_running_last_check = TRUE
    /\ force_stats_sync = FALSE
    /\ sync_status = "idle"
    /\ fifty_percent_synced = FALSE
    /\ discord_lost_logged = FALSE
    /\ fah_lost_logged = FALSE
    /\ last_discord_status = FALSE
    /\ last_fah_status = FALSE
    /\ update_interval \in UpdateIntervals
    /\ percents = <<>>
    /\ proj_ids = <<>>
    /\ is_running = FALSE
    /\ percent_float = 0
    /\ detail_text = NoneVal
    /\ state_text = NoneVal
    /\ restart_event = FALSE
    /\ stop_event = FALSE
    /\ connected = FALSE
    /\ rpc = NoneVal
    /\ scraper_open = TRUE
    /\ stats_cache = <<>>
    /\ cache_age = CacheTTL
    /\ calls = <<>>
    /\ logs = <<>>
    /\ pre = Snapshot(0, "idle", NoneVal, FALSE, FALSE, TRUE, Placeholder, Placeholder, FALSE)
    /\ eval = NoEval
    /\ tick_exc = FALSE
    /\ ok_updates = 0
    /\ outage = FALSE
    /\ outage_logs = 0
    /\ fetched = FALSE
    /\ sleeps = 0
    /\ sup_pc = "poll_sleep"
    /\ tasks_started = 1
    /\ cancelled = FALSE
    /\ prev = NoPrev

\* percents, proj_ids, is_running = await scraper.get_control_data()
ControlCall ==
    /\ pc = "ctl_call"
    /\ LET r == GetControlData(ctl_page)
       IN  /\ percents' = r.percents
           /\ proj_ids' = r.proj_ids
           /\ is_running' = r.is_running
           /\ calls' = Append(calls, Call("get_control_data", ~r.raised, TRUE))
    /\ pc' = "ctl_done"
    /\ UNCHANGED <<global_points, global_wus, last_known_project, cycle_index,
                   was_running_last_check, force_stats_sync, sync_status,
                   fifty_percent_synced, discord_lost_logged, fah_lost_logged,
                   last_discord_status, last_fah_status, update_interval,
                   percent_float, detail_text, state_text>>
    /\ UNCHANGED <<eventVars, sinkVars, scraperVars, logs, pre, eval, tick_exc,
                   runObs, sleeps, supVars, harnessVars>>

NextControl == ControlCall

SpecControl == InitControl /\ [][NextControl]_vars

(***************************************************************************)
(* GPUMonitor.get_all_gpu_data() called on its own, on any set of devices  *)
(* and readings.                                                           *)
(***************************************************************************)
InitGpu ==
    /\ pc = "gpu_call"
    /\ global_points = Placeholder
    /\ global_wus = Placeholder
    /\ last_known_project = NoneVal
    /\ cycle_index = 0
    /\ was_running_last_check = TRUE
    /\ force_stats_sync = FALSE
    /\ sync_status = "idle"
    /\ fifty_percent_synced = FALSE
    /\ discord_lost_logged = FALSE
    /\ fah_lost_logged = FALSE
    /\ last_discord_status = FALSE
    /\ last_fah_status = FALSE
    /\ update_interval \in UpdateIntervals
    /\ percents = <<>>
    /\ proj_ids = <<>>
    /\ is_running = FALSE
    /\ percent_float = 0
    /\ detail_text = NoneVal
    /\ state_text = NoneVal
    /\ restart_event = FALSE
    /\ stop_event = FALSE
    /\ connected = FALSE
    /\ rpc = NoneVal
    /\ scraper_open = FALSE
    /\ stats_cache = <<>>
    /\ cache_age = CacheTTL
    /\ calls = <<>>
    /\ logs = <<>>
    /\ pre = Snapshot(0, "idle", NoneVal, FALSE, FALSE, TRUE, Placeholder, Placeholder, FALSE)
    /\ eval = NoEval
    /\ tick_exc = FALSE
    /\ ok_updates = 0
    /\ outage = FALSE
    /\ outage_logs = 0
    /\ fetched = FALSE
    /\ sleeps = 0
    /\ sup_pc = "poll_sleep"
    /\ tasks_started = 1
    /\ cancelled = FALSE
    /\ prev = NoPrev
    /\ ctl_page = NoPage
    /\ escaped = FALSE
    /\ since_remote = CacheTTL
    /\ gpu_raw \in { [nvidia |-> n, amd |-> a] :
                        n \in SeqsUpTo(NvidiaDevices, MaxGpus),
                        a \in SeqsUpTo(AmdDevices, MaxGpus) }
    /\ gpu_out = NoGpu

GpuCall ==
    /\ pc = "gpu_call"
    /\ LET out == GetAllGpuData(gpu_raw)
       IN  /\ gpu_out' = out
           /\ calls' = Append(calls, Call("get_all_gpu_data", TRUE, out.gpu_data # <<>>))
    /\ pc' = "gpu_done"
    /\ UNCHANGED <<global_points, global_wus, last_known_project, cycle_index,
                   was_running_last_check, force_stats_sync, sync_status,
                   fifty_percent_synced, discord_lost_logged, fah_lost_logged,
                   last_discord_status, last_fah_status, update_interval,
                   percents, proj_ids, is_running, percent_float, detail_text,
                   state_text>>
    /\ UNCHANGED <<eventVars, sinkVars, scraperVars, logs, pre, eval, tick_exc,
                   runObs, sleeps, supVars, ctl_page, escaped, since_remote, gpu_raw>>

NextGpu == GpuCall

SpecGpu == InitGpu /\ [][NextGpu]_vars

(***************************************************************************)
(* Properties                                                              *)
(***************************************************************************)
\* the calls of the current tick to a leaf operation
CallsTo(op) == {i \in 1..Len(calls) : calls[i].op = op}

OkCallsTo(op) == {i \in CallsTo(op) : calls[i].ret}

\* the tick is over: every call of the tick is in calls
TickEnd == pc = "sleep"

\* the tick reached the running check: the sink was connected and
\* get_control_data() returned
ReachedRunningCheck == OkCallsTo("get_control_data") # {}

\* the need predicate of the spec, on the values the tick evaluated it with
NeedPredicate ==
    \/ eval.proj_id # eval.last_known
    \/ (eval.percent_float >= 500 /\ ~eval.fifty)
    \/ eval.sync_status = "idle"
    \/ eval.force

\* C1: a tick that reaches the running check with is_running false calls
\* DiscordRPC.clear() exactly once and never DiscordRPC.update(): no update
\* call at any point of the tick, one clear call when the tick ends.
C1_PausedTickClears ==
    (ReachedRunningCheck /\ ~is_running) =>
        /\ CallsTo("update") = {}
        /\ Cardinality(CallsTo("clear")) <= 1
        /\ TickEnd => Cardinality(CallsTo("clear")) = 1

C1_Witness ==
    /\ TickEnd
    /\ ReachedRunningCheck
    /\ ~is_running
    /\ Cardinality(CallsTo("clear")) = 1
    /\ pre.cycle_index > 0

\* C2: in a running tick, get_global_stats() is called if and only if the
\* need predicate holds and sync_status is not 'pending' when it is
\* evaluated.
C2_RefreshIffNeeded ==
    (TickEnd /\ eval.done) =>
        ((CallsTo("get_global_stats") # {})
            <=> (NeedPredicate /\ eval.sync_status # "pending"))

\* a refresh attempted for the force flag alone, and a running tick without
\* a refresh, both occur
C2_Witness ==
    /\ TickEnd
    /\ eval.done
    /\ CallsTo("get_global_stats") # {}
    /\ eval.force
    /\ eval.proj_id = eval.last_known
    /\ eval.sync_status = "synced"
    /\ ~(eval.percent_float >= 500 /\ ~eval.fifty)

\* C3: cycle_index grows by one in the ticks where update() returned
\* success and is unchanged in every other tick; it equals the number of
\* successful update() calls since the task started and never decreases.
C3_TickIncrement ==
    /\ cycle_index = ok_updates
    /\ TickEnd => cycle_index = pre.cycle_index
                    + (IF OkCallsTo("update") # {} THEN 1 ELSE 0)
    /\ Cardinality(CallsTo("update")) <= 1

C3_CycleCounter ==
    []C3_TickIncrement /\ [][cycle_index' >= cycle_index]_vars

\* a tick whose update() failed after earlier successes
C3_Witness ==
    /\ TickEnd
    /\ CallsTo("update") # {}
    /\ OkCallsTo("update") = {}
    /\ cycle_index = 2
    /\ pre.cycle_index = 2

\* C4: once a stats fetch has returned both figures, the held totals never
\* hold None.
C4_TotalsNeverBlanked ==
    fetched => (global_points # NoneVal /\ global_wus # NoneVal)

\* C5: fifty_percent_synced goes from true to false only in the step of a
\* running tick that finds a leading task ID other than last_known_project,
\* and in every such tick it is false when the need predicate is evaluated.
C5_ResetOnlyOnIdChange ==
    (fifty_percent_synced /\ ~fifty_percent_synced') =>
        /\ pc = "control"
        /\ eval'.done
        /\ eval'.proj_id # last_known_project

C5_FalseAtEval == (eval.done /\ eval.proj_id # eval.last_known) => ~eval.fifty

C5_FiftyReset == []C5_FalseAtEval /\ [][C5_ResetOnlyOnIdChange]_vars

\* the flag was true when the tick started and the task ID changed
C5_Witness ==
    /\ eval.done
    /\ eval.proj_id # eval.last_known
    /\ pre.fifty_percent_synced
    /\ ~fifty_percent_synced

\* C6: a running tick whose leading task ID differs from
\* last_known_project attempts a refresh in that tick and records the
\* leading task ID as last_known_project.
C6_IdChangeRefreshes ==
    (eval.done /\ eval.proj_id # eval.last_known) =>
        /\ last_known_project = eval.proj_id
        /\ pc = "stats" \/ CallsTo("get_global_stats") # {}

\* a task change below 50% with sync_status 'synced' and no force flag
C6_Witness ==
    /\ TickEnd
    /\ eval.done
    /\ eval.proj_id # eval.last_known
    /\ eval.last_known # NoneVal
    /\ eval.sync_status = "synced"
    /\ ~eval.force
    /\ eval.percent_float < 500
    /\ CallsTo("get_global_stats") # {}

\* C7: a running tick at 50% or more with the flag false attempts a
\* refresh; a fetch at 50% or more that returns valid data leaves the flag
\* true; with the flag true at the start of a tick of the same task,
\* sync_status 'synced' and no force flag, no refresh is attempted.
C7_FiftyPercentOnce ==
    (TickEnd /\ eval.done) =>
        /\ (eval.percent_float >= 500 /\ ~eval.fifty)
              => CallsTo("get_global_stats") # {}
        /\ (OkCallsTo("get_global_stats") # {} /\ eval.percent_float >= 500)
              => fifty_percent_synced
        /\ (pre.fifty_percent_synced /\ eval.proj_id = eval.last_known
              /\ eval.sync_status = "synced" /\ ~eval.force)
              => CallsTo("get_global_stats") = {}

\* a later tick of the same task above 50% that does not refresh
C7_Witness ==
    /\ TickEnd
    /\ eval.done
    /\ pre.fifty_percent_synced
    /\ eval.proj_id = eval.last_known
    /\ eval.percent_float >= 500
    /\ eval.sync_status = "synced"
    /\ ~eval.force
    /\ CallsTo("get_global_stats") = {}

\* the texts rpc_gpu_text can take
GpuTexts == {RpcGpuText(g) : g \in GpuResults}

IsTotals == detail_text = "pTotal: " \o Str(global_points)
            /\ state_text = "WUs Completed: " \o Str(global_wus)

IsTwoTasks == /\ Len(percents) >= 2
              /\ detail_text = ProjectText(proj_ids[1], percents[1])
              /\ state_text = ProjectText(proj_ids[2], percents[2])

IsDeviceFlavor == detail_text \in GpuTexts /\ state_text = Flavor

IsDeviceTask == /\ detail_text \in GpuTexts
                /\ state_text = ProjectText(proj_ids[1], percents[1])

\* C8: the texts passed to update() are chosen by the number of task IDs
\* and the cycle_index the tick started with: cycle_index mod 3 for two or
\* more IDs (totals, first two tasks, device summary with the flavor
\* string), cycle_index mod 2 for one ID (totals, device summary with the
\* task), totals for none.
C8_DisplayRotation ==
    (CallsTo("update") # {}) =>
        LET n == Len(proj_ids)
            c == pre.cycle_index
        IN  /\ (n >= 2 /\ c % 3 = 0) => IsTotals
            /\ (n >= 2 /\ c % 3 = 1) => IsTwoTasks
            /\ (n >= 2 /\ c % 3 = 2) => IsDeviceFlavor
            /\ (n = 1 /\ c % 2 = 0) => IsTotals
            /\ (n = 1 /\ c % 2 = 1) => IsDeviceTask
            /\ (n = 0) => IsTotals

\* two tasks, the fourth update: the rotation is back at the totals
C8_Witness ==
    /\ CallsTo("update") # {}
    /\ Len(proj_ids) = 2
    /\ pre.cycle_index = 3
    /\ IsTotals

\* C9: during a sink outage, from the first failed connect() or update()
\* until the next successful connect(), exactly one 'Discord not found'
\* line has been printed.
C9_OneNotFoundPerOutage == outage => outage_logs = 1

\* a later tick of an outage: its connect() failed and printed nothing
C9_Witness ==
    /\ outage
    /\ TickEnd
    /\ CallsTo("connect") # {}
    /\ OkCallsTo("connect") = {}
    /\ logs = <<>>

\* the last call made and whether the step makes a call
LastCall == calls[Len(calls)]

Calling(op) == Len(calls') = Len(calls) + 1 /\ calls'[Len(calls')].op = op

\* C10: a failed update() leaves connected false; while connected is false
\* update() returns failure without reaching the SDK session; connected
\* becomes true only by a successful connect(); a failed connect() leaves
\* connected false.
C10_Step ==
    /\ (Calling("update") /\ ~calls'[Len(calls')].ret) => ~connected'
    /\ (Calling("update") /\ ~connected)
          => (~calls'[Len(calls')].ret /\ ~calls'[Len(calls')].ext)
    /\ (~connected /\ connected')
          => (Calling("connect") /\ calls'[Len(calls')].ret)
    /\ (Calling("connect") /\ ~calls'[Len(calls')].ret) => ~connected'

C10_FailureDisconnects == [][C10_Step]_vars

\* connect, an update that fails in the SDK, then an update that is refused
\* without reaching the SDK
C10_Witness ==
    /\ pc = "sink"
    /\ Len(calls) = 3
    /\ calls[1] = Call("connect", TRUE, TRUE)
    /\ calls[2] = Call("update", FALSE, TRUE)
    /\ calls[3] = Call("update", FALSE, FALSE)
    /\ ~connected

\* the positions inside the while loop of main_logic
LoopPcs == {"top", "connect", "control", "stats", "update", "clear", "sleep"}

\* C11: an exception raised in the tick body and not handled by a per-step
\* guard is caught by the handler of the tick: the task goes to the sleep
\* of that handler and from there to the while condition, having made no
\* update() or clear() call; and the task leaves the while loop only from
\* its while condition with the restart or the stop flag set, or because
\* task.cancel() reached it.
C11_TickExceptionCaught ==
    [][ /\ (tick_exc' /\ ~tick_exc) =>
               /\ pc' = "sleep"
               /\ \A i \in 1..Len(calls') : calls'[i].op \notin {"update", "clear"}
        /\ (tick_exc /\ pc = "sleep") =>
               \/ pc' = "top" /\ sleeps' = 1
               \/ pc' = "sleep"
               \/ cancelled' /\ ~cancelled
        /\ (pc \in LoopPcs /\ pc' \notin LoopPcs) =>
               \/ pc = "top" /\ (restart_event \/ stop_event)
               \/ cancelled' /\ ~cancelled ]_vars

\* a tick whose body raised has been put to sleep by the handler
C11_Witness ==
    /\ pc = "sleep"
    /\ tick_exc
    /\ ReachedRunningCheck
    /\ ~restart_event /\ ~stop_event

\* C12: every iteration of the while loop makes exactly one
\* asyncio.sleep(update_interval) call: the task comes back to the while
\* condition with one sleep made, whichever branch the iteration took, and
\* an iteration starts with none made.
C12_OneSleepPerIteration ==
    [][ /\ (pc \in LoopPcs \ {"top"} /\ pc' = "top") => sleeps' = 1
        /\ (pc = "top" /\ pc' \in {"connect", "control"}) => sleeps' = 0
        /\ (pc \in LoopPcs \ {"top", "sleep"}) => sleeps = 0 ]_vars

\* an iteration that failed to connect, and one that ran a whole tick, is
\* back at the while condition with its one sleep made
C12_Witness ==
    /\ pc = "top"
    /\ sleeps = 1
    /\ discord_lost_logged
    /\ cycle_index > 0

\* the supervisor is past its await of the task it cancelled
SupPastAwait ==
    /\ tasks_started >= 1
    /\ sup_pc \in {"half_sleep", "notice", "restart_sleep", "while", "clear", "returned"}

\* C13: whenever the supervisor has cancelled and awaited a task, on a
\* restart or on a stop, the task's cleanup has closed both the sink
\* (discord.close(): no SDK session, not connected) and the scraping
\* session (scraper.close(): no browser) before the supervisor goes on to
\* create the next task or to return.
C13_CleanupBeforeNext ==
    SupPastAwait => (~scraper_open /\ rpc = NoneVal /\ ~connected)

\* C14: at most one main_logic task is live: the supervisor creates a task
\* only when there is no earlier task or the earlier task has finished.
C14_OneLiveTask ==
    [][ tasks_started' # tasks_started => pc \in {"none", "done"} ]_vars

\* a second task is ticking, created after the first, which had got
\* somewhere, finished
C14_Witness ==
    /\ tasks_started = 2
    /\ pc = "control"
    /\ prev.finished
    /\ prev.progressed

\* C15 as stated: once the stop flag is set the supervisor creates no task.
C15_NoTaskAfterStop ==
    [][ stop_event => tasks_started' = tasks_started ]_vars

\* C15: once the stop flag is set no main_logic task created from then on
\* runs: a supervisor that evaluates its while condition with the flag set
\* returns instead of going on to create a task, also with the restart
\* flag set; a task created with the flag set (the flag was set between
\* the while condition and create_task) is cancelled before its first
\* step, and no task is created after it.
C15_NoTaskRunsAfterStop ==
    [][ /\ (stop_event /\ sup_pc = "while") => sup_pc' \in {"while", "returned"}
        /\ (prev.stopping /\ pc = "created") =>
               \/ pc' = "created"
               \/ pc' = "done" /\ cancelled'
        /\ prev.stopping => tasks_started' = tasks_started ]_vars

\* both flags are set, the task created with the stop flag set was
\* cancelled, and the supervisor has returned
C15_Witness ==
    /\ stop_event
    /\ restart_event
    /\ prev.stopping
    /\ cancelled
    /\ pc = "done"
    /\ sup_pc = "returned"

\* the task is at its while condition for the first time
FirstTop == pc = "top" /\ sleeps = 0

Cleared ==
    /\ cycle_index = 0
    /\ sync_status = "idle"
    /\ last_known_project = NoneVal
    /\ ~fifty_percent_synced
    /\ ~force_stats_sync
    /\ global_points = Placeholder
    /\ global_wus = Placeholder
    /\ ~connected
    /\ rpc = NoneVal
    /\ stats_cache = <<>>

\* C16: a task created by the supervisor, the first one or one created on a
\* restart, reaches its first while condition with cleared state: cycle
\* index 0, sync status idle, no known project, the 50% and force flags
\* false, the totals at the placeholder, the sink disconnected and the
\* stats cache empty, whatever the previous task had reached.
C16_FreshTaskCleared ==
    (tasks_started >= 1 /\ (pc \in {"created", "init"} \/ FirstTop)) => Cleared

\* the second task is at its first while condition and the first one had
\* advanced its display cycle and cached totals
C16_Witness ==
    /\ tasks_started = 2
    /\ FirstTop
    /\ prev.finished
    /\ prev.progressed

\* C17: a flag is set only by a step of the outside (the tray menu, the
\* signal handler), which moves neither the task nor the supervisor; the
\* stop flag is never cleared; the restart flag is cleared only by the
\* supervisor's restart_event.clear(), in the step that creates the next
\* task; the steps of the task leave both flags as they are.
C17_FlagDiscipline ==
    [][ /\ stop_event => stop_event'
        /\ ((restart_event' /\ ~restart_event) \/ (stop_event' /\ ~stop_event)) =>
               UNCHANGED <<loopVars, sinkVars, scraperVars, supVars>>
        /\ (restart_event /\ ~restart_event') =>
               /\ sup_pc = "clear"
               /\ sup_pc' = "poll_check"
               /\ tasks_started' = tasks_started + 1
               /\ pc' = "created"
        /\ pc' # pc /\ sup_pc' = sup_pc => UNCHANGED eventVars ]_vars

\* a restart was requested from outside, the supervisor has cleared the
\* flag and created the second task, and the stop flag has been set since
C17_Witness ==
    /\ tasks_started = 2
    /\ prev.finished
    /\ ~restart_event
    /\ stop_event
    /\ pc = "created"

\* the get_control_data() call has been made and has returned values
ControlReturned == pc = "ctl_done" /\ calls[1].ret

\* the page lacks the expected markup: no .progress-text element or no
\* task ID
LacksMarkup(page) == page.progress_text = <<>> \/ page.ids = <<>>

\* C18: get_control_data() raises whenever the endpoint cannot be reached
\* or the page served lacks the progress indicators or the task IDs; it
\* returns no values built from such a page.
C18_FailsWithoutMarkup ==
    (pc = "ctl_done" /\ (~ctl_page.reachable \/ LacksMarkup(ctl_page)))
        => ~calls[1].ret

\* C19: the values get_control_data() returns have as many task IDs as
\* percentages, whatever page was served.
C19_ParallelLists ==
    ControlReturned => Len(proj_ids) = Len(percents)

\* _stats_cache holds both figures
ValidStats(cache) == cache # <<>> /\ cache[1] # NoneVal /\ cache[2] # NoneVal

\* C20: get_global_stats() never replaces a cached value holding both
\* figures by a result without data, and never stores the empty result
\* (None, None) in _stats_cache, from where it would be served as a hit.
C20_CacheNeverBlanked ==
    [][ /\ ValidStats(stats_cache) => ValidStats(stats_cache')
        /\ stats_cache' # <<NoneVal, NoneVal>> ]_vars

(***************************************************************************)
(* Refresh after connect, flags and logs of the tick (C21, C26-C30)        *)
(***************************************************************************)
\* C21: a tick whose connect() succeeded and whose data pull found the
\* work running calls get_global_stats(), and that call reaches the remote
\* stats page, whatever the age of the cached value (here: a cached value
\* with both figures).
C21_ConnectRefreshes ==
    (TickEnd /\ OkCallsTo("connect") # {} /\ eval.done /\ ValidStats(stats_cache)) =>
        \E i \in CallsTo("get_global_stats") : calls[i].ext

\* the GPU query of the tick raised or returned no device
GpuFailed == \E i \in CallsTo("get_all_gpu_data") : ~calls[i].ext

\* C23: a tick whose get_all_gpu_data() raised or returned no device still
\* calls update(), and the device summary it can display is the fixed
\* 'GPU Info Unavailable' text: detail_text is set, and is no other device
\* summary.
C23_GpuFailureTolerated ==
    (TickEnd /\ GpuFailed) =>
        /\ CallsTo("update") # {}
        /\ detail_text # NoneVal
        /\ detail_text \in GpuTexts => detail_text = GpuUnavailable

\* C26: wherever sync_status is 'pending', force_stats_sync is false.
C26_AttemptClearsForce == sync_status = "pending" => ~force_stats_sync

\* a refresh attempted because force_stats_sync was set
C26_Witness ==
    /\ pc = "stats"
    /\ sync_status = "pending"
    /\ eval.done
    /\ eval.force
    /\ ~force_stats_sync

\* the most recent get_control_data() of the task failed: a loss has been
\* logged and no fetch has succeeded since
InFahOutage == fah_lost_logged /\ ~last_fah_status

\* C27: the first successful get_control_data() after an outage prints
\* 'FAH connection restored' once and re-arms the loss log
\* (fah_lost_logged false again).
C27_Step ==
    (Calling("get_control_data") /\ calls'[Len(calls')].ret /\ InFahOutage) =>
        /\ Cardinality({i \in 1..Len(logs') : logs'[i] = "fah_restored"}) = 1
        /\ ~fah_lost_logged'

C27_RestoredLogged == [][C27_Step]_vars

\* C28: a connect() that succeeds during an outage of the sink, whether
\* the outage began with a failed connect() or a failed update(), prints
\* 'Discord connection established' exactly once.
C28_Step ==
    (Calling("connect") /\ calls'[Len(calls')].ret /\ outage) =>
        Cardinality({i \in 1..Len(logs') : logs'[i] = "discord_established"}) = 1

C28_EstablishedLogged == [][C28_Step]_vars

Count(log) == Cardinality({i \in 1..Len(logs) : logs[i] = log})

\* C29: at the end of a tick whose get_control_data() returned, 'started'
\* was printed (once) exactly if is_running is true and
\* was_running_last_check was false when the tick began, 'paused' (once)
\* exactly if is_running is false and it was true, and
\* was_running_last_check equals is_running; a tick without a successful
\* fetch prints neither and leaves was_running_last_check alone.
C29_RunLogs ==
    TickEnd =>
        IF ReachedRunningCheck
        THEN /\ Count("started") =
                   (IF is_running /\ ~pre.was_running_last_check THEN 1 ELSE 0)
             /\ Count("paused") =
                   (IF ~is_running /\ pre.was_running_last_check THEN 1 ELSE 0)
             /\ was_running_last_check = is_running
        ELSE /\ Count("started") = 0
             /\ Count("paused") = 0
             /\ was_running_last_check = pre.was_running_last_check

\* a tick that finds the work resumed after a paused tick
C29_Witness ==
    /\ TickEnd
    /\ ReachedRunningCheck
    /\ is_running
    /\ ~pre.was_running_last_check
    /\ Count("started") = 1
    /\ pre.cycle_index > 0

\* the tick was aborted by a hard dependency: connect() failed or
\* get_control_data() raised
Aborted ==
    \/ (CallsTo("connect") # {} /\ OkCallsTo("connect") = {})
    \/ (CallsTo("get_control_data") # {} /\ OkCallsTo("get_control_data") = {})

\* C30: an aborted tick makes no call to get_global_stats(),
\* get_all_gpu_data(), update() or clear(), at any point up to its end, and
\* leaves cycle_index, sync_status, last_known_project,
\* fifty_percent_synced, was_running_last_check and the held totals as they
\* were when the tick began.
C30_AbortedTickInert ==
    Aborted =>
        /\ CallsTo("get_global_stats") = {}
        /\ CallsTo("get_all_gpu_data") = {}
        /\ CallsTo("update") = {}
        /\ CallsTo("clear") = {}
        /\ cycle_index = pre.cycle_index
        /\ sync_status = pre.sync_status
        /\ last_known_project = pre.last_known_project
        /\ fifty_percent_synced = pre.fifty_percent_synced
        /\ was_running_last_check = pre.was_running_last_check
        /\ global_points = pre.global_points
        /\ global_wus = pre.global_wus

\* a tick aborted by get_control_data() after some display progress and a
\* stats fetch, and one aborted by connect()
C30_Witness ==
    /\ TickEnd
    /\ CallsTo("get_control_data") # {}
    /\ OkCallsTo("get_control_data") = {}
    /\ pre.cycle_index > 0
    /\ pre.sync_status = "synced"

(***************************************************************************)
(* The leaf operations on their own (C22, C24)                             *)
(***************************************************************************)
\* C22: a request to the remote stats page made one update interval or more
\* after the previous one is made a full TTL or more after it
\* (since_remote = CacheTTL also stands for: no request so far).
C22_Step ==
    (Calling("get_global_stats") /\ calls'[Len(calls')].ext /\ since_remote > 0)
        => since_remote = CacheTTL

C22_RequestsOneTtlApart == [][C22_Step]_vars

\* C24: no exception leaves connect(), update(), clear(), close() or
\* get_global_stats(), whatever the SDK or the transport does; a failed
\* connect(), update() or get_global_stats() is a call that returned
\* failure.
C24_NoEscape == ~escaped

\* a failed connect(), an update() that failed in the SDK and a
\* get_global_stats() whose remote fetch failed have all returned
C24_Witness ==
    /\ \E i \in CallsTo("connect") : ~calls[i].ret
    /\ \E i \in CallsTo("update") : ~calls[i].ret /\ calls[i].ext
    /\ \E i \in CallsTo("get_global_stats") : ~calls[i].ret /\ calls[i].ext
    /\ ~escaped

(***************************************************************************)
(* GPU readings (C25)                                                      *)
(***************************************************************************)
\* C25: every reading returned by get_all_gpu_data() carries a temperature
\* that is a positive integer or "N/A", and every entry of the temperature
\* list used for averaging is positive.
C25_TemperaturesNormalised ==
    pc = "gpu_done" =>
        /\ \A i \in 1..Len(gpu_out.gpu_data) :
              gpu_out.gpu_data[i].temp = NA \/ gpu_out.gpu_data[i].temp > 0
        /\ \A j \in 1..Len(gpu_out.temperatures) : gpu_out.temperatures[j] > 0

(***************************************************************************)
(* Reconnection, paused ticks and the refresh state (C31-C36, C39, C40)    *)
(***************************************************************************)
\* C31: once update() has failed in a tick the sink is disconnected and no
\* connect() follows in that tick; the tick after it begins disconnected,
\* and in a tick that began disconnected the first leaf call is connect(),
\* before any get_control_data().
C31_Tick ==
    /\ \A i \in CallsTo("update") :
          ~calls[i].ret =>
              /\ ~connected
              /\ \A j \in CallsTo("connect") : j < i
    /\ \A i \in CallsTo("get_control_data") :
          ~pre.connected => (i > 1 /\ calls[1].op = "connect")

C31_NextTick ==
    ((\E i \in CallsTo("update") : ~calls[i].ret) /\ calls' = <<>>)
        => ~pre'.connected

C31_ReconnectNextTick == []C31_Tick /\ [][C31_NextTick]_vars

\* the tick after a failed update(): it began with connect(), which failed
\* without a log line because the loss had been logged by update()
C31_Witness ==
    /\ TickEnd
    /\ calls = << Call("connect", FALSE, TRUE) >>
    /\ logs = <<>>
    /\ last_discord_status
    /\ outage

\* the frame of a paused tick, apart from force_stats_sync
PausedFrame ==
    /\ CallsTo("get_global_stats") = {}
    /\ CallsTo("get_all_gpu_data") = {}
    /\ sync_status = pre.sync_status
    /\ last_known_project = pre.last_known_project
    /\ fifty_percent_synced = pre.fifty_percent_synced
    /\ global_points = pre.global_points
    /\ global_wus = pre.global_wus
    /\ cycle_index = pre.cycle_index

PausedTick == TickEnd /\ ReachedRunningCheck /\ ~is_running

\* C32 as claimed: a paused tick calls neither get_global_stats() nor the
\* GPU query and leaves sync_status, last_known_project,
\* fifty_percent_synced, force_stats_sync, the held totals and cycle_index
\* as they were when the tick began.
C32_PausedTickInert ==
    PausedTick => (PausedFrame /\ force_stats_sync = pre.force_stats_sync)

\* C32 as amended: the same, with force_stats_sync unchanged except that a
\* connect() that succeeded in this tick has set it.
C32_PausedTickFrame ==
    PausedTick =>
        /\ PausedFrame
        /\ force_stats_sync = (pre.force_stats_sync \/ OkCallsTo("connect") # {})

\* a paused tick that connected first
C32_Witness ==
    /\ PausedTick
    /\ OkCallsTo("connect") # {}
    /\ ~pre.force_stats_sync
    /\ force_stats_sync
    /\ CallsTo("clear") # {}

\* C34: a tick in which the sink is connected and get_control_data()
\* returned is_running true calls update() exactly once, whatever the
\* numbers of task IDs and percentages.
C34_UpdateOncePerRunningTick ==
    (TickEnd /\ ReachedRunningCheck /\ is_running) =>
        Cardinality(CallsTo("update")) = 1

\* C35: sync_status is 'pending' only while get_global_stats() is awaited;
\* it is 'idle' or 'synced' when a tick ends and when the need predicate
\* is evaluated.
C35_PendingOnlyInFlight ==
    /\ sync_status = "pending" => pc = "stats"
    /\ TickEnd => sync_status \in {"idle", "synced"}
    /\ eval.done => eval.sync_status # "pending"

\* an attempt that failed after an earlier one had succeeded
C35_Witness ==
    /\ TickEnd
    /\ pre.sync_status = "synced"
    /\ \E i \in CallsTo("get_global_stats") : ~calls[i].ret
    /\ sync_status = "idle"

\* C36: a tick that finds is_running true after a fetched tick that found
\* it false evaluates the need predicate with force_stats_sync set and
\* calls get_global_stats().
C36_FlipForcesRefresh ==
    (TickEnd /\ ReachedRunningCheck /\ is_running /\ ~pre.was_running_last_check) =>
        /\ eval.done
        /\ eval.force
        /\ CallsTo("get_global_stats") # {}

\* a resumed tick where nothing but the flip asks for a refresh
C36_Witness ==
    /\ TickEnd
    /\ ReachedRunningCheck
    /\ is_running
    /\ ~pre.was_running_last_check
    /\ ~pre.force_stats_sync
    /\ CallsTo("connect") = {}
    /\ eval.proj_id = eval.last_known
    /\ eval.sync_status = "synced"
    /\ ~(eval.percent_float >= 500 /\ ~eval.fifty)
    /\ CallsTo("get_global_stats") # {}

\* C39: the loop calls update() and clear() only while the sink's
\* connected flag is true.
C39_Step == (Calling("update") \/ Calling("clear")) => connected

C39_CalledWhileConnected == [][C39_Step]_vars

\* a tick that began disconnected, connected and reached the SDK with
\* update()
C39_Witness ==
    /\ TickEnd
    /\ ~pre.connected
    /\ pre.cycle_index > 0
    /\ \E i \in CallsTo("update") : calls[i].ext

\* C40: clear() leaves connected and the session handle as they are; a
\* paused tick that began connected ends connected and makes no connect().
C40_Step == Calling("clear") => (connected' = connected /\ rpc' = rpc)

C40_Tick == (PausedTick /\ pre.connected) => (connected /\ CallsTo("connect") = {})

C40_ClearKeepsConnection == []C40_Tick /\ [][C40_Step]_vars

\* the second of two paused ticks in a row
C40_Witness ==
    /\ PausedTick
    /\ pre.connected
    /\ ~pre.was_running_last_check
    /\ \E i \in CallsTo("clear") : calls[i].ext
    /\ connected

(***************************************************************************)
(* Retrying the refresh (C33)                                              *)
(***************************************************************************)
\* get_global_stats() returns in this step, and what it returns is valid
Fetched == (CallsTo("get_global_stats"))' # CallsTo("get_global_stats")

ValidFetch == Fetched => (OkCallsTo("get_global_stats"))' # {}

\* C33: a tick whose get_global_stats() returned empty ends with
\* sync_status 'idle'; sync_status leaves 'idle' only by an attempt and
\* becomes 'synced' only by a fetch that returned valid data; every running
\* tick that finds sync_status 'idle' calls get_global_stats(); and if
\* running ticks keep coming and from some point on every fetch returns
\* valid data, sync_status is 'synced' again and again.
C33_Tick ==
    TickEnd =>
        /\ (\E i \in CallsTo("get_global_stats") : ~calls[i].ret) => sync_status = "idle"
        /\ (eval.done /\ eval.sync_status = "idle") => CallsTo("get_global_stats") # {}

C33_Step ==
    /\ (sync_status = "idle" /\ sync_status' # "idle") => sync_status' = "pending"
    /\ (sync_status # "synced" /\ sync_status' = "synced")
          => (Fetched /\ (OkCallsTo("get_global_stats"))' # {})

C33_Live ==
    ([]<>(TickEnd /\ eval.done) /\ <>[][ValidFetch]_vars) => []<>(sync_status = "synced")

C33_RetryUntilSynced == []C33_Tick /\ [][C33_Step]_vars /\ C33_Live

\* the second running tick in a row whose fetch returned empty
C33_Witness ==
    /\ TickEnd
    /\ eval.done
    /\ eval.sync_status = "idle"
    /\ eval.proj_id = eval.last_known
    /\ ~eval.force
    /\ \E i \in CallsTo("get_global_stats") : ~calls[i].ret
    /\ sync_status = "idle"

(***************************************************************************)
(* Restart and stop under fair scheduling (C37, C38)                       *)
(***************************************************************************)
\* a task has been created, has not finished, and the supervisor polls
TaskRunning == pc \notin {"none", "done"} /\ sup_pc \in {"poll_check", "poll_sleep"}

\* the step creates a task
Creates == tasks_started' = tasks_started + 1

\* a restart consumes the flag: the task is cancelled by the poll only
\* with a flag set, and the step that creates the next task leaves the
\* restart flag clear, however often it was set since the poll
C37_Step ==
    /\ (sup_pc = "poll_check" /\ sup_pc' = "cancel") => (restart_event \/ stop_event)
    /\ tasks_started' # tasks_started => (Creates /\ ~restart_event')

\* C37 as claimed: the restart flag set while a task runs and stop is not
\* set is eventually followed by the creation of a fresh task (below the
\* bound on tasks), and a restart consumes the flag.
C37_RestartLeadsToTask ==
    /\ \A k \in 1..(MaxTasks - 1) :
          (restart_event /\ ~stop_event /\ TaskRunning /\ tasks_started = k)
              ~> (tasks_started > k)
    /\ [][C37_Step]_vars

\* C37 as amended: ... is eventually followed by the creation of a fresh
\* task unless the stop flag is set first.
C37_RestartLeadsToTaskUnlessStop ==
    /\ \A k \in 1..(MaxTasks - 1) :
          (restart_event /\ ~stop_event /\ TaskRunning /\ tasks_started = k)
              ~> (tasks_started > k \/ stop_event)
    /\ [][C37_Step]_vars

\* a fresh task at work after a restart of a task that had made progress
C37_Witness ==
    /\ tasks_started = 2
    /\ pc = "update"
    /\ prev.progressed
    /\ ~prev.stopping
    /\ ~restart_event
    /\ ~stop_event

\* C38: when main_loop has returned the task has finished and its
\* cleanup has completed: no SDK session, not connected, no browser.
C38_ReturnedCleanedUp ==
    sup_pc = "returned" =>
        /\ pc \in {"none", "done"}
        /\ ~scraper_open
        /\ rpc = NoneVal
        /\ ~connected

\* main_loop does return once the stop flag is set (under SpecLifeFair;
\* the model creates no task beyond MaxTasks)
StopLeadsToReturn ==
    stop_event ~> (sup_pc = "returned" \/ (sup_pc = "clear" /\ tasks_started = MaxTasks))

====
